---- MODULE Spec2Model ----
(***************************************************************************)
(* A model of the HOCON parser gurkankaymak/hocon: the scanner adapter,    *)
(* the recursive-descent parser (extractObject, extractValue, ...), the    *)
(* deep merge, the include directive and the substitution resolver.        *)
(*                                                                         *)
(* Go maps and slices are reference types.  The model therefore keeps a    *)
(* heap of cells; an Object, Array or concatenation value is a reference   *)
(* into it, so that sharing created by the resolver (a substitution is     *)
(* replaced by the very value found in the tree) is visible.               *)
(***************************************************************************)
EXTENDS Integers, Sequences, FiniteSets, TLC

VARIABLES
    input,      \* the text handed to ParseString, as a sequence of lexemes
    env,        \* the process environment: variable name -> value
    fs,         \* the file system seen by os.Open: file name -> file
    pc,         \* where the call of parse stands: "start", "resolve", "done",
                \* "panic" (the program panicked), "hang" (it loops for ever)
    heap,       \* the cells of every map and slice allocated so far
    root,       \* the root value built by extractObject / extractArray
    stack,      \* the calls of resolveSubstitutions in progress, innermost first
    err,        \* the error returned by parse (<<>> when none)
    parsed,     \* the tree as the parser built it, before resolution
    step,       \* what the last step of the resolver did, and to which slot
    files,      \* the files opened and closed so far
    doc         \* the document the text of input was written from

vars == <<input, env, fs, pc, heap, root, stack, err, parsed, step, files, doc>>

(***************************************************************************)
(* Tokens (src/unnamed/part_000, lines 16-33).                             *)
(***************************************************************************)
equalsToken == "="
commaToken == ","
colonToken == ":"
dotToken == "."
objectStartToken == "{"
objectEndToken == "}"
arrayStartToken == "["
arrayEndToken == "]"
includeToken == "include"
commentToken == "#"

forbiddenCharacters ==
    { "$", "\"", objectStartToken, objectEndToken, arrayStartToken, arrayEndToken,
      colonToken, equalsToken, commaToken, "+", commentToken, "backtick", "^", "?",
      "!", "@", "*", "&", "\\", "(", ")" }

(***************************************************************************)
(* The text/scanner adapter.  A source text is a sequence of lexemes       *)
(*   [body, rune, num, gap, raw]                                           *)
(* body: the token text (for a quoted string: the text between the         *)
(* quotes); rune: the class Scan returns ("Ident", "Int", "Float",         *)
(* "String", or "Char" for a single-rune token); num: the value of an Int  *)
(* literal, and of a Float literal its value in thousandths; gap: the      *)
(* white space that follows the lexeme in the input, a sequence over " ",  *)
(* "\t" and "\n"; raw: after the token "" of an opening triple quote, the  *)
(* characters that follow it up to the end of the string.                  *)
(* A parser position is the index of the current lexeme: 0 before the      *)
(* first advance, Len(src)+1 once Scan has returned EOF.                   *)
(***************************************************************************)
NoErr == <<>>

\* the nil interface value
Nil == [t |-> "nil"]

EOFRune == "EOF"

AtEOF(p) == p.i > Len(p.src)

Started(p) == p.i >= 1

\* scanner.TokenText(): "" before the first Scan, at EOF and after the raw
\* reads (Next) of a multi-line string.  The text of a quoted string carries
\* its quotes, so it differs from every unquoted text.
TokenText(p) ==
    IF Started(p) /\ ~AtEOF(p) /\ ~p.cut
    THEN [quoted |-> p.src[p.i].rune = "String", body |-> p.src[p.i].body]
    ELSE [quoted |-> FALSE, body |-> ""]

\* the text of an unquoted token
Text(s) == [quoted |-> FALSE, body |-> s]

TokenIs(p, s) == TokenText(p) = Text(s)

\* p.currentRune, set by advance
currentRune(p) == IF Started(p) /\ ~AtEOF(p) THEN p.src[p.i].rune ELSE EOFRune

\* strings.Trim(text, `"`)
TrimQuotes(text) == text.body

\* the newlines in the gaps of the tokens before the i-th
NewlinesBefore(src, i) ==
    Cardinality(UNION { { <<j, k>> : k \in { n \in 1..Len(src[j].gap) : src[j].gap[n] = "\n" } } :
                        j \in 1..(i - 1) })

\* scanner.Line: the line of the token last scanned; Next(), which reads the
\* characters of a multi-line string, sets it to 0
Line(p) ==
    IF p.cut THEN 0
    ELSE 1 + NewlinesBefore(p.src, IF AtEOF(p) THEN Len(p.src) + 1 ELSE p.i)

FirstChar(lex) ==
    IF lex.rune = "String" THEN "\""
    ELSE IF lex.rune = "Char" THEN lex.body
    ELSE "letter"

\* scanner.Peek(): the character right after the current token
Peek(p) ==
    IF AtEOF(p) THEN EOFRune
    ELSE IF ~Started(p)
         THEN (IF Len(p.src) = 0 THEN EOFRune ELSE FirstChar(p.src[1]))
    ELSE IF ~p.cut /\ p.src[p.i].raw # <<>> THEN p.src[p.i].raw[1]
    ELSE IF p.src[p.i].gap # <<>> THEN p.src[p.i].gap[1]
    ELSE IF p.i = Len(p.src) THEN EOFRune
    ELSE FirstChar(p.src[p.i + 1])

\* scanner.Pos().Line: the line of the character right after the current
\* token.  When that character is the newline, it still lies on the token's
\* line, so for the single-line tokens of the model it is the token's line.
PosLine(p) == Line(p)

\* advance(): Scan, skipping the tabs and spaces (Scan itself skips "\n")
advance(p) == [p EXCEPT !.i = IF AtEOF(p) THEN p.i ELSE p.i + 1, !.cut = FALSE]

\* a parser that keeps one space for every run of tabs and spaces
lastConsumedWhitespacesAsOneSpace(p) ==
    IF p.i >= 2 /\ p.i - 1 <= Len(p.src) /\ p.src[p.i - 1].gap # <<>> THEN <<" ">> ELSE <<>>

\* p.lastConsumedWhitespaces: the tabs and spaces skipped by the last advance
lastConsumedWhitespaces(p) ==
    IF p.i >= 2 /\ p.i - 1 <= Len(p.src)
    THEN SelectSeq(p.src[p.i - 1].gap, LAMBDA c : c # "\n")
    ELSE <<>>

\* The parser, with the memory it works on: src, i, cut and filepath are the
\* parser and its scanner; h is the heap; v and e are the (value, error)
\* pair of the last call; opened and closed count the files.
newParser(src, h) ==
    [src |-> src, i |-> 0, cut |-> FALSE, filepath |-> ".", h |-> h,
     v |-> Nil, e |-> NoErr, opened |-> 0, closed |-> 0]

newFileParser(name, src, h) == [newParser(src, h) EXCEPT !.filepath = name]

Fail(r, e) == [r EXCEPT !.e = e, !.v = Nil]

Return(r, v) == [r EXCEPT !.v = v]

Failed(r) == r.e # NoErr

(***************************************************************************)
(* Values (src/config.go).  Object, Array and concatenation are references *)
(* to heap cells; the other values are immediate.  The content of a String *)
(* is a sequence of text pieces, so that the white space kept by a         *)
(* concatenation (a run of single characters) is a String like any other.  *)
(***************************************************************************)
ObjectType == "ObjectType"
StringType == "StringType"
ArrayType == "ArrayType"
NumberType == "NumberType"
BooleanType == "BooleanType"
NullType == "NullType"
SubstitutionType == "SubstitutionType"
ConcatenationType == "ConcatenationType"
valueWithAlternativeType == "valueWithAlternativeType"

IntVal(n) == [t |-> "Int", n |-> n]
Float64(f) == [t |-> "Float64", f |-> f]
String(str) == [t |-> "String", str |-> str]
Boolean(b) == [t |-> "Boolean", b |-> b]
null == [t |-> "Null"]
Duration(ns) == [t |-> "Duration", ns |-> ns]
Substitution(path, optional) == [t |-> "Substitution", path |-> path, optional |-> optional]
valueWithAlternative(value, alternative) ==
    [t |-> "valueWithAlternative", value |-> value, alternative |-> alternative]
Object(ref) == [t |-> "Object", ref |-> ref]
Array(ref) == [t |-> "Array", ref |-> ref]
concatenation(ref) == [t |-> "concatenation", ref |-> ref]

Type(v) ==
    CASE v.t = "Object" -> ObjectType
      [] v.t = "String" -> StringType
      [] v.t = "Array" -> ArrayType
      [] v.t \in {"Int", "Float64"} -> NumberType
      [] v.t = "Boolean" -> BooleanType
      [] v.t = "Null" -> NullType
      [] v.t = "Substitution" -> SubstitutionType
      [] v.t = "concatenation" -> ConcatenationType
      [] v.t = "valueWithAlternative" -> valueWithAlternativeType
      [] v.t = "Duration" -> StringType
      [] v.t = "nil" -> "panic"          \* a method call on the nil interface value

isConcatenable(v) == v.t \in {"String", "Boolean", "Null", "Substitution", "concatenation"}

(***************************************************************************)
(* The heap: a sequence of cells, a reference being an index.  A map cell  *)
(* holds a function from keys to values, a slice cell a sequence.          *)
(***************************************************************************)
EmptyMap == [k \in {} |-> Nil]

MapCell(m) == [kind |-> "map", m |-> m, s |-> <<>>]

SliceCell(s) == [kind |-> "slice", m |-> EmptyMap, s |-> s]

Alloc(h, cell) == Append(h, cell)

NewRef(h) == Len(h) + 1

MapOf(h, ref) == h[ref].m

SliceOf(h, ref) == h[ref].s

HasKey(h, ref, key) == key \in DOMAIN h[ref].m

\* object[key] = value
MapSet(h, ref, key, value) ==
    [h EXCEPT ![ref].m = [k \in (DOMAIN @) \cup {key} |-> IF k = key THEN value ELSE @[k]]]

\* v[i] = value
SliceSet(h, ref, i, value) == [h EXCEPT ![ref].s[i] = value]

(***************************************************************************)
(* The order of a range over a map is unspecified.  Where the loop body is *)
(* one atomic step of the model (mergeObjects) the keys are visited in the *)
(* order of KeyUniverse or in the reverse order, as the caller chooses; the*)
(* loop of resolveSubstitutions visits them in any order (see below).      *)
(***************************************************************************)
KeyUniverse == << "a", "b", "c", "d", "x", "y", "z", "" >>

Reverse(s) == [i \in 1..Len(s) |-> s[Len(s) + 1 - i]]

RECURSIVE SetToSeq(_)
SetToSeq(S) ==
    IF S = {} THEN <<>>
    ELSE LET k == CHOOSE k \in S : TRUE IN <<k>> \o SetToSeq(S \ {k})

RangeKeys(S, rev) ==
    LET known == SelectSeq(KeyUniverse, LAMBDA k : k \in S)
        other == SetToSeq(S \ {KeyUniverse[i] : i \in 1..Len(KeyUniverse)})
        all == known \o other
    IN IF rev THEN Reverse(all) ELSE all

(***************************************************************************)
(* mergeObjects (src/unnamed/part_000, lines 394-405).                     *)
(***************************************************************************)
\* A heap in which the program has panicked (a method called on the nil
\* interface value): the one cell says so.
PanicHeap == << [kind |-> "panic", m |-> EmptyMap, s |-> <<>>] >>

\* A heap in which the program has ended with a stack overflow.
OverflowHeap == << [kind |-> "panic", m |-> EmptyMap, s |-> <<"stack overflow">>] >>

IsPanic(h) == Len(h) = 1 /\ h[1].kind = "panic"

RECURSIVE mergeCalls(_, _, _, _, _)
RECURSIVE mergeKeys(_, _, _, _, _, _)

\* the loop of mergeObjects over the keys still to visit; calling holds the
\* arguments of the calls in progress
mergeKeys(h, existing, new, keys, rev, calling) ==
    IF keys = <<>> \/ IsPanic(h) THEN h
    ELSE
        LET key == Head(keys)
            value == MapOf(h, new)[key]
            ok == HasKey(h, existing, key)
            existingValue == IF ok THEN MapOf(h, existing)[key] ELSE Nil
            \* ok && existingValue.Type() == ObjectType && value.Type() == ObjectType
            panics == ok /\ (existingValue = Nil
                               \/ (Type(existingValue) = ObjectType /\ value = Nil))
            both == ok /\ Type(existingValue) = ObjectType /\ Type(value) = ObjectType
            h1 == IF both THEN mergeCalls(h, existingValue.ref, value.ref, rev, calling) ELSE h
            stored == IF both THEN existingValue ELSE value
        IN  IF panics THEN PanicHeap
            ELSE IF IsPanic(h1) THEN h1
            ELSE mergeKeys(MapSet(h1, existing, key, stored), existing, new, Tail(keys), rev,
                           calling)

\* A call with the arguments of a call in progress is a call in a cycle of
\* maps: the entries that led to it are Objects, which the calls in between
\* leave in place, so it makes the same call again, and the recursion ends
\* with a stack overflow.
mergeCalls(h, existing, new, rev, calling) ==
    IF <<existing, new>> \in calling THEN OverflowHeap
    ELSE mergeKeys(h, existing, new, RangeKeys(DOMAIN MapOf(h, new), rev), rev,
                   calling \cup {<<existing, new>>})

mergeObjects(h, existing, new, rev) == mergeCalls(h, existing, new, rev, {})

\* The number of nested calls of resolveSubstitutions that are followed.  No
\* tree of the parser is as deep; calls nested deeper follow a cycle of maps,
\* which they never leave, and end with a stack overflow.
MaxCalls == 8

(***************************************************************************)
(* Object.find (src/config.go, lines 354-371).  A path is kept as the      *)
(* sequence of token texts it was written with; strings.Split cuts it at   *)
(* the "." tokens.                                                         *)
(***************************************************************************)
RECURSIVE SplitPath(_)
SplitPath(path) ==
    IF \A i \in 1..Len(path) : path[i] # dotToken THEN << path >>
    ELSE LET d == CHOOSE i \in 1..Len(path) :
                      path[i] = dotToken /\ \A j \in 1..(i - 1) : path[j] # dotToken
         IN << SubSeq(path, 1, d - 1) >> \o SplitPath(SubSeq(path, d + 1, Len(path)))

\* the text of one segment: the texts of its tokens joined.  A segment is
\* one token in every path the model writes; a segment of several tokens is
\* a text that is no key of the model.
SegmentKey(seg) ==
    IF Len(seg) = 1 THEN seg[1] ELSE IF Len(seg) = 0 THEN "" ELSE "joined-tokens"

RECURSIVE findWalk(_, _, _)
findWalk(h, object, keys) ==
    IF Len(keys) = 1
    THEN [panic |-> FALSE,
          v |-> IF HasKey(h, object, SegmentKey(keys[1]))
                THEN MapOf(h, object)[SegmentKey(keys[1])] ELSE Nil]
    ELSE LET key == SegmentKey(Head(keys)) IN
         IF ~HasKey(h, object, key) THEN [panic |-> FALSE, v |-> Nil]
         ELSE LET value == MapOf(h, object)[key] IN
              \* value.(Object): a type assertion without the ok form panics
              IF value.t # "Object" THEN [panic |-> TRUE, v |-> Nil]
              ELSE findWalk(h, value.ref, Tail(keys))

find(h, o, path) == findWalk(h, o, SplitPath(path))

(***************************************************************************)
(* Small predicates of the parser (lines 796-826).                         *)
(***************************************************************************)
isBooleanString(token) ==
    token \in {Text("true"), Text("yes"), Text("on"), Text("false"), Text("no"), Text("off")}

newBooleanFromString(token) == Boolean(token \in {Text("true"), Text("yes"), Text("on")})

isSubstitution(token, peekedToken) == token = Text("$") /\ peekedToken = "{"

isSeparator(token, peekedToken) ==
    token = Text(equalsToken) \/ token = Text(colonToken)
        \/ (token = Text("+") /\ peekedToken = "=")

\* no forbidden character occurs in the token: a quoted token holds a quote,
\* an identifier or a number holds none, a single rune is judged by itself
isUnquotedString(token) == ~token.quoted /\ token.body \notin forbiddenCharacters

isMultiLineString(token, peekedToken) ==
    token = [quoted |-> TRUE, body |-> ""] /\ peekedToken = "\""

isTokenConcatenable(p) ==
    \/ isSubstitution(TokenText(p), Peek(p))
    \/ isUnquotedString(TokenText(p))
    \/ (currentRune(p) = "String" /\ ~isMultiLineString(TokenText(p), Peek(p)))

(***************************************************************************)
(* consumeComment (lines 761-766).                                         *)
(***************************************************************************)
RECURSIVE consumeCommentLoop(_)
consumeCommentLoop(r) ==
    IF Peek(r) # "\n" /\ Peek(r) # EOFRune THEN consumeCommentLoop(advance(r)) ELSE r

consumeComment(r) == advance(consumeCommentLoop(r))

RECURSIVE skipComments(_)
skipComments(r) == IF TokenIs(r, commentToken) THEN skipComments(consumeComment(r)) ELSE r

(***************************************************************************)
(* extractDurationUnit (lines 670-694): the unit in nanoseconds, 0 if none.*)
(* The parser is advanced to the token after the number in any case.       *)
(***************************************************************************)
Nanosecond == 1
Microsecond == 1000
Millisecond == 1000000
Second == 1000000000
Minute == 60 * Second
Hour == 60 * Minute

durationUnitOf(token) ==
    CASE token \in {Text("ns"), Text("nano"), Text("nanos"), Text("nanosecond"), Text("nanoseconds")} -> Nanosecond
      [] token \in {Text("us"), Text("micro"), Text("micros"), Text("microsecond"), Text("microseconds")} -> Microsecond
      [] token \in {Text("ms"), Text("milli"), Text("millis"), Text("millisecond"), Text("milliseconds")} -> Millisecond
      [] token \in {Text("s"), Text("second"), Text("seconds")} -> Second
      [] token \in {Text("m"), Text("minute"), Text("minutes")} -> Minute
      [] token \in {Text("h"), Text("hour"), Text("hours")} -> Hour
      [] token \in {Text("d"), Text("day"), Text("days")} -> Hour * 24
      [] OTHER -> 0

extractDurationUnit(r) ==
    LET nextCharacter == Peek(r)
        r1 == advance(r)
    IN [r |-> r1,
        unit |-> IF nextCharacter # "\n" /\ Line(r1) = PosLine(r1)
                 THEN durationUnitOf(TokenText(r1)) ELSE 0]

(***************************************************************************)
(* Errors (src/errors.go and the constructors used by the parser).  An     *)
(* error is a sequence of texts: its kind, then its detail.  The line and  *)
(* column of a parse error are not kept.                                   *)
(***************************************************************************)
invalidKeyError(key) == <<"invalidKey", key>>
leadingPeriodError == <<"leadingPeriod">>
trailingPeriodError == <<"trailingPeriod">>
adjacentPeriodsError == <<"adjacentPeriods">>
leadingCommaError == <<"leadingComma">>
adjacentCommasError == <<"adjacentCommas">>
missingCommaError == <<"missingComma">>
invalidObjectError(message) == <<"invalidObject">> \o message
invalidArrayError(message) == <<"invalidArray">> \o message
invalidValueError(message) == <<"invalidValue">> \o message
invalidSubstitutionError(message) == <<"invalidSubstitution", message>>
invalidConcatenationError == <<"invalidConcatenation">>
unclosedMultiLineStringError == <<"unclosedMultiLineString">>
couldNotParseResource(cause) == <<"could not parse resource", cause>>
couldNotResolve(substitution) ==
    <<"could not resolve substitution", IF substitution.optional THEN "${?" ELSE "${">>
        \o substitution.path \o <<"} to a value">>

\* not an error value: the call does not return (a loop that never ends)
Diverges == <<"diverges">>

\* not an error value: a run-time panic
Panic(what) == <<"panic", what>>

(***************************************************************************)
(* extractSubstitution (lines 696-759).  The loop condition reads tok,     *)
(* which is set once before the loop and never again (the post statement   *)
(* discards the result of Peek), so the loop ends only by a return or a    *)
(* break.  At the end of the input advance changes nothing and the token   *)
(* stays "": the loop then repeats the same iteration for ever.            *)
(***************************************************************************)
RECURSIVE extractSubstitutionLoop(_, _, _, _, _)
extractSubstitutionLoop(r, token, previousToken, path, optional) ==
    IF token = Text(commentToken)
    THEN Fail(r, invalidSubstitutionError("comments are not allowed inside substitutions"))
    ELSE
        LET \* pathBuilder.WriteString(token): a quoted token is written with its quotes
            path1 == IF token.quoted THEN path \o <<"\"", token.body, "\"">>
                     ELSE IF token.body = "" THEN path
                     ELSE Append(path, token.body)
            r1 == advance(r)
            token1 == TokenText(r1)
        IN  IF previousToken = Text(dotToken) /\ token1 = Text(dotToken)
            THEN Fail(r1, adjacentPeriodsError)
            ELSE IF token1 = Text(objectEndToken)
            THEN IF previousToken = Text(dotToken)
                 THEN Fail(r1, trailingPeriodError)
                 ELSE Return(advance(r1), Substitution(path1, optional))
            ELSE IF ~token1.quoted /\ token1.body \in forbiddenCharacters
            THEN Fail(r1, invalidKeyError(token1.body))
            ELSE IF AtEOF(r) /\ token = Text("") /\ previousToken = Text("")
            THEN Fail(r1, Diverges)
            ELSE extractSubstitutionLoop(r1, token1, token1, path1, optional)

extractSubstitution(r) ==
    LET r1 == advance(advance(r))                    \* skip "$" and "{"
        optional == TokenIs(r1, "?")
        r2 == IF optional THEN advance(r1) ELSE r1
        token == TokenText(r2)
        tok == Peek(r2)
    IN  IF token = Text(objectEndToken)
        THEN Fail(r2, invalidSubstitutionError("path expression cannot be empty"))
        ELSE IF token = Text(dotToken)
        THEN Fail(r2, leadingPeriodError)
        ELSE IF tok = EOFRune
        THEN Fail(r2, invalidSubstitutionError("missing closing parenthesis"))
        ELSE extractSubstitutionLoop(r2, token, Text(""), <<>>, optional)

(***************************************************************************)
(* extractMultiLineString (lines 768-794).  The characters that follow the *)
(* token "" of an opening triple quote are the lexeme's raw field; the     *)
(* first Next skips the third quote, which is raw[1].                      *)
(***************************************************************************)
\* a loop that ends at the third adjacent quote, whatever follows it
RECURSIVE multiLineLoopEndingAtThree(_, _, _, _)
multiLineLoopEndingAtThree(raw, i, read, adjacentQuoteCount) ==
    IF i > Len(raw) THEN <<read, adjacentQuoteCount>>
    ELSE IF raw[i] = "\"" /\ adjacentQuoteCount + 1 >= 3
    THEN <<Append(read, raw[i]), adjacentQuoteCount + 1>>
    ELSE multiLineLoopEndingAtThree(raw, i + 1, Append(read, raw[i]),
                                    IF raw[i] = "\"" THEN adjacentQuoteCount + 1 ELSE 0)

RECURSIVE multiLineLoop(_, _, _, _)
\* the loop over Next(): the result is <<characters read, adjacentQuoteCount>>
multiLineLoop(raw, i, read, adjacentQuoteCount) ==
    IF i > Len(raw) THEN <<read, adjacentQuoteCount>>
    ELSE LET next == raw[i]
             count == IF next = "\"" THEN adjacentQuoteCount + 1 ELSE 0
             peek == IF i + 1 <= Len(raw) THEN raw[i + 1] ELSE "other"
         IN IF count >= 3 /\ peek # "\""
            THEN <<Append(read, next), count>>
            ELSE multiLineLoop(raw, i + 1, Append(read, next), count)

extractMultiLineString(r) ==
    LET raw == r.src[r.i].raw
        res == multiLineLoop(raw, 2, <<>>, 0)
        r1 == [r EXCEPT !.cut = TRUE]
    IN IF res[2] >= 3
       THEN Return(r1, String(SubSeq(res[1], 1, Len(res[1]) - 3)))
       ELSE Fail(r1, unclosedMultiLineStringError)

(***************************************************************************)
(* extractValue, extractArray, extractObject and their helpers are         *)
(* mutually recursive.  Where the code goes on with the result of a call,  *)
(* the model has one operator for the call and one for what follows it.    *)
(***************************************************************************)
RECURSIVE extractValue(_)
RECURSIVE extractObject(_, _)
RECURSIVE extractArrayLoop(_, _)
RECURSIVE extractObjectLoop(_)
RECURSIVE concatenateLoop(_)

(***************************************************************************)
(* extractArray (lines 536-597).                                           *)
(***************************************************************************)
\* lines 583-596: the end of a pass of the loop, array being the elements so far
arrayEnd(r, array) ==
    IF TokenIs(r, arrayEndToken)
    THEN Return([advance(r) EXCEPT !.h = Alloc(r.h, SliceCell(array))], Array(NewRef(r.h)))
    ELSE extractArrayLoop(r, array)

\* lines 562-581: r is the parser after the call of extractValue
arrayElement(r, lastRow, array) ==
    IF Failed(r) THEN r
    ELSE IF Line(r) = lastRow /\ ~TokenIs(r, commaToken) /\ ~TokenIs(r, arrayEndToken)
    THEN Fail(r, missingCommaError)
    ELSE IF ~TokenIs(r, commaToken) THEN arrayEnd(r, Append(array, r.v))
    ELSE IF TokenIs(advance(r), commaToken) THEN Fail(advance(r), adjacentCommasError)
    ELSE arrayEnd(advance(r), Append(array, r.v))

\* lines 558-561: the loop condition and the call of extractValue
extractArrayLoop(r, array) ==
    IF Peek(r) = EOFRune
    THEN Fail(r, invalidArrayError(<<"parenthesis do not match">>))
    ELSE arrayElement(extractValue(r), Line(r), array)

extractArray(r) ==
    IF ~TokenIs(r, arrayStartToken)
    THEN Fail(r, invalidArrayError(<<"is not an array start token">>))
    ELSE IF TokenIs(advance(r), commaToken) THEN Fail(advance(r), leadingCommaError)
    ELSE IF TokenIs(advance(r), arrayEndToken)
    THEN Return([advance(advance(r)) EXCEPT !.h = Alloc(r.h, SliceCell(<<>>))],
                Array(NewRef(r.h)))
    ELSE extractArrayLoop(advance(r), <<>>)

(***************************************************************************)
(* extractValue (lines 599-668).                                           *)
(***************************************************************************)
\* lines 608-619 and 621-632: d is the result of extractDurationUnit
numberValue(lex, isFloat, d) ==
    IF d.unit # 0
    \* time.Duration(value) * durationUnit: the conversion of a float
    \* to time.Duration drops its fraction
    THEN Return(advance(d.r),
                Duration((IF isFloat THEN lex.num \div 1000 ELSE lex.num) * d.unit))
    ELSE Return(d.r, IF isFloat THEN Float64(lex.body) ELSE IntVal(lex.num))

extractNumber(r, isFloat) == numberValue(r.src[r.i], isFloat, extractDurationUnit(r))

\* lines 637-648: an identifier
identValue(r, token) ==
    CASE token = Text("null") -> Return(advance(r), null)
      [] isBooleanString(token) -> Return(advance(r), newBooleanFromString(token))
      [] token # Text("null") /\ ~isBooleanString(token) /\ isUnquotedString(token) ->
            Return(advance(r), String(<<token.body>>))
      [] OTHER -> Fail(r, invalidValueError(<<"unknown value", token.body>>))

\* lines 606-667
valueOfToken(r) ==
    CASE currentRune(r) \notin {"Int", "Float", "String", "Ident"}
            /\ TokenText(r) = Text(objectStartToken) -> extractObject(r, FALSE)
      [] currentRune(r) \notin {"Int", "Float", "String", "Ident"}
            /\ TokenText(r) = Text(arrayStartToken) -> extractArray(r)
      [] currentRune(r) \notin {"Int", "Float", "String", "Ident"}
            /\ isSubstitution(TokenText(r), Peek(r)) -> extractSubstitution(r)
      [] currentRune(r) = "Int" -> extractNumber(r, FALSE)
      [] currentRune(r) = "Float" -> extractNumber(r, TRUE)
      [] currentRune(r) = "String" /\ isMultiLineString(TokenText(r), Peek(r)) -> extractMultiLineString(r)
      [] currentRune(r) = "String" /\ ~isMultiLineString(TokenText(r), Peek(r)) ->
            Return(advance(r), String(<<TrimQuotes(TokenText(r))>>))
      [] currentRune(r) = "Ident" -> identValue(r, TokenText(r))
      [] OTHER -> IF isUnquotedString(TokenText(r)) THEN Return(advance(r), String(<<TokenText(r).body>>))
                  ELSE Fail(r, invalidValueError(<<"unknown value", TokenText(r).body>>))

\* lines 600-604
extractValue(r) ==
    valueOfToken(IF TokenIs(r, commentToken) THEN consumeComment(r) ELSE r)

(***************************************************************************)
(* parsePlusEqualsValue (lines 407-428).                                   *)
(***************************************************************************)
\* lines 410-415 and 420-424: r is the parser after the call of extractValue,
\* array the elements the key held
plusEqualsStore(r, existingObject, key, array) ==
    IF Failed(r) THEN r
    ELSE [r EXCEPT !.h = MapSet(Alloc(r.h, SliceCell(Append(array, r.v))),
                                existingObject, key, Array(NewRef(r.h)))]

parsePlusEqualsValue(r, existingObject, key) ==
    IF HasKey(r.h, existingObject, key)
          /\ Type(MapOf(r.h, existingObject)[key]) # ArrayType
    THEN Fail(r, invalidValueError(<<"value of the key", key, "is not an array">>))
    ELSE plusEqualsStore(extractValue(r), existingObject, key,
                         IF HasKey(r.h, existingObject, key)
                         THEN SliceOf(r.h, MapOf(r.h, existingObject)[key].ref)
                         ELSE <<>>)

(***************************************************************************)
(* validateIncludeValue (lines 430-479): the include, or an error.         *)
(***************************************************************************)
validateIncludeValue(r) ==
    LET missingOpen == invalidValueError(<<"missing opening parenthesis">>)
        missingClose == invalidValueError(<<"missing closing parenthesis">>)
        required == TokenIs(r, "required")
        r1 == IF required THEN advance(r) ELSE r
        r2 == IF required THEN advance(r1) ELSE r1
        wrapped == TokenIs(r2, "file") \/ TokenIs(r2, "classpath")
        r3 == IF wrapped THEN advance(r2) ELSE r2
        r4 == IF wrapped THEN advance(r3) ELSE r3      \* at the path
        r5 == IF wrapped THEN advance(r4) ELSE r4
        token == TokenText(r4)
        r6 == IF required THEN advance(r5) ELSE r5
    IN  IF required /\ ~TokenIs(r1, "(") THEN Fail(r1, missingOpen)
        ELSE IF wrapped /\ ~TokenIs(r3, "(") THEN Fail(r3, missingOpen)
        ELSE IF wrapped /\ ~TokenIs(r5, ")") THEN Fail(r5, missingClose)
        ELSE IF required /\ ~TokenIs(r6, ")") THEN Fail(r6, missingClose)
        ELSE IF ~token.quoted
        THEN Fail(r6, invalidValueError(<<"expected quoted string">>))
        ELSE Return(r6, [path |-> token.body, required |-> required])

(***************************************************************************)
(* parseIncludedResource (lines 481-513).  os.Open is answered by fs: a    *)
(* name outside its domain does not exist; a file is either readable,      *)
(* [ok |-> TRUE, src |-> its text], or cannot be opened for another        *)
(* reason, [ok |-> FALSE].  Every file of the model lies in the working    *)
(* directory, so path.Join(path.Dir(p.filepath), name) is name.            *)
(***************************************************************************)
ErrNotExist == "no such file or directory"
ErrPermission == "permission denied"

osOpen(name) ==
    IF name \notin DOMAIN fs THEN [err |-> ErrNotExist]
    ELSE IF ~fs[name].ok THEN [err |-> ErrPermission]
    ELSE [err |-> "", src |-> fs[name].src]

\* the deferred file.Close() (lines 500-504)
closeFile(r) == [r EXCEPT !.closed = @ + 1]

\* the return to the including parser r, with the memory and the result the
\* included parser res left
includeReturn(r, res) ==
    [r EXCEPT !.h = res.h, !.v = res.v, !.e = res.e,
              !.opened = res.opened, !.closed = res.closed]

\* lines 506-512
includeParse(r, includeParser) ==
    includeReturn(r, closeFile(
        IF TokenIs(includeParser, arrayStartToken)
        THEN Fail(includeParser, invalidValueError(
                    <<"included file cannot contain an array as the root value">>))
        ELSE extractObject(includeParser, FALSE)))

\* a parser that takes every file it cannot open for an empty one
includeOpenedOrEmpty(r, file) ==
    IF file.err = ""
    THEN includeParse(r, advance([newFileParser(r.v.path, file.src, r.h)
                                    EXCEPT !.opened = r.opened + 1, !.closed = r.closed]))
    ELSE IF ~r.v.required
    THEN Return([r EXCEPT !.h = Alloc(r.h, MapCell(EmptyMap))], Object(NewRef(r.h)))
    ELSE Fail(r, couldNotParseResource(file.err))

\* lines 489-498: file is the result of os.Open
includeOpened(r, file) ==
    IF file.err = ""
    THEN includeParse(r, advance([newFileParser(r.v.path, file.src, r.h)
                                    EXCEPT !.opened = r.opened + 1, !.closed = r.closed]))
    ELSE IF file.err = ErrNotExist /\ ~r.v.required
    THEN Return([r EXCEPT !.h = Alloc(r.h, MapCell(EmptyMap))], Object(NewRef(r.h)))
    ELSE Fail(r, couldNotParseResource(file.err))

\* lines 482-489: r is the parser after the call of validateIncludeValue
includeValidated(r) == IF Failed(r) THEN r ELSE includeOpened(r, osOpen(r.v.path))

parseIncludedResource(r) == includeValidated(validateIncludeValue(r))

(***************************************************************************)
(* checkAndConcatenate (lines 515-534); field `concatenated` is the        *)
(* boolean result.                                                         *)
(***************************************************************************)
\* lines 520-530: r is the parser after the call of extractValue
concatenate(r, object, key, lastValue, whitespaces) ==
    IF Failed(r) THEN [r |-> r, concatenated |-> FALSE]
    ELSE [r |-> [r EXCEPT !.h = MapSet(
                    Alloc(r.h, SliceCell(
                        IF Type(lastValue) = ConcatenationType
                        THEN SliceOf(r.h, lastValue.ref) \o <<String(whitespaces), r.v>>
                        ELSE <<lastValue, String(whitespaces), r.v>>)),
                    object, key, concatenation(NewRef(r.h)))],
          concatenated |-> TRUE]

checkAndConcatenate(r, object, key) ==
    IF HasKey(r.h, object, key) /\ isConcatenable(MapOf(r.h, object)[key])
          /\ isTokenConcatenable(r)
    THEN concatenate(extractValue(r), object, key, MapOf(r.h, object)[key],
                     lastConsumedWhitespaces(r))
    ELSE [r |-> r, concatenated |-> FALSE]

(***************************************************************************)
(* extractObject (lines 219-392).  The state of its loop is a record L:    *)
(* r the parser and memory, object the map being filled, balanced          *)
(* (parenthesisBalanced), lastRow, isSubObject, key and text of the        *)
(* current entry, and ctl: "run", "break" (the loop was left by break) or  *)
(* "return" (return object from inside the loop).  An error ends the loop  *)
(* with Failed(L.r).  Each part of the loop body is one operator; it does  *)
(* nothing once the body has been left.                                    *)
(***************************************************************************)
Running(L) == L.ctl = "run" /\ ~Failed(L.r)

\* lines 240-242 and 359-361
objectComments(L) == IF Running(L) THEN [L EXCEPT !.r = skipComments(@)] ELSE L

\* lines 248-253: r is the parser after the call of parseIncludedResource
objectIncluded(L, r) ==
    IF Failed(r) THEN [L EXCEPT !.r = r]
    ELSE [L EXCEPT !.r = advance([r EXCEPT
                        !.h = mergeObjects(r.h, L.object, r.v.ref, FALSE)])]

\* lines 244-254
objectInclude(L) ==
    IF Running(L) /\ TokenIs(L.r, includeToken)
    THEN objectIncluded(L, parseIncludedResource(advance(L.r)))
    ELSE L

\* lines 256-262 and 378-384
objectEnd(L) ==
    IF Running(L) /\ ~L.balanced /\ TokenIs(L.r, objectEndToken)
    THEN [L EXCEPT !.balanced = TRUE, !.r = advance(@), !.ctl = "break"]
    ELSE L

\* lines 264-274
objectKey(L) ==
    IF ~Running(L) THEN L
    ELSE IF TrimQuotes(TokenText(L.r)) \in forbiddenCharacters
    THEN [L EXCEPT !.r = Fail(@, invalidKeyError(TrimQuotes(TokenText(L.r))))]
    ELSE IF TrimQuotes(TokenText(L.r)) = dotToken
    THEN [L EXCEPT !.r = Fail(@, leadingPeriodError)]
    ELSE [L EXCEPT !.key = TrimQuotes(TokenText(L.r)), !.r = advance(L.r),
                   !.text = TokenText(advance(L.r))]

\* lines 349-356: c is the result of checkAndConcatenate
concatenated(L, c) ==
    IF Failed(c.r) \/ ~c.concatenated THEN [L EXCEPT !.r = c.r]
    ELSE concatenateLoop([L EXCEPT !.r = c.r])

\* lines 348-357
concatenateLoop(L) ==
    IF Running(L) /\ Line(L.r) = L.lastRow /\ TokenText(L.r) # Text("")
    THEN concatenated(L, checkAndConcatenate(L.r, L.object, L.key))
    ELSE L

\* lines 370-384: the comma, and the closing brace after it
objectComma(L) ==
    IF TokenIs(L.r, commaToken) /\ TokenIs(advance(L.r), commaToken)
    THEN [L EXCEPT !.r = Fail(advance(L.r), adjacentCommasError)]
    ELSE objectEnd(IF TokenIs(L.r, commaToken) THEN [L EXCEPT !.r = advance(@)] ELSE L)

\* lines 363-384
objectMissingComma(L) ==
    IF /\ Line(L.r) = L.lastRow
       /\ ~TokenIs(L.r, commaToken)
       /\ ~TokenIs(L.r, objectEndToken)
       /\ Peek(L.r) # EOFRune
    THEN [L EXCEPT !.r = Fail(@, missingCommaError)]
    ELSE objectComma(L)

\* lines 359-384: L is the loop after the concatenations
objectConcatenated(L) ==
    IF L.r.e # NoErr THEN L ELSE objectMissingComma(objectComments(L))

\* lines 344-384: the rest of the body, L being the loop once the entry is stored
objectRest(L) ==
    IF L.r.e # NoErr THEN L
    ELSE IF L.balanced /\ L.isSubObject THEN [L EXCEPT !.ctl = "return"]
    ELSE objectConcatenated(concatenateLoop(L))

\* lines 292-303: r is the parser after the call of extractObject(true); the
\* switch of line 306 has no case for the "." or "{" that text holds here
objectSub(L, lastRow, r) ==
    IF r.e # NoErr THEN [L EXCEPT !.r = r, !.lastRow = lastRow]
    ELSE objectRest(
            IF HasKey(r.h, L.object, L.key) /\ Type(MapOf(r.h, L.object)[L.key]) = ObjectType
            THEN [L EXCEPT !.lastRow = lastRow,
                           !.r = [r EXCEPT !.h = MapSet(
                                    mergeObjects(r.h, MapOf(r.h, L.object)[L.key].ref,
                                                 r.v.ref, FALSE),
                                    L.object, L.key, MapOf(r.h, L.object)[L.key])]]
            ELSE [L EXCEPT !.lastRow = lastRow,
                           !.r = [r EXCEPT !.h = MapSet(r.h, L.object, L.key, r.v)]])

\* lines 277-291: r is the parser after the "." has been skipped, if there was one
objectPathFrom(L, r) ==
    IF L.text = Text(dotToken) /\ TokenIs(r, dotToken)
    THEN [L EXCEPT !.r = Fail(r, adjacentPeriodsError)]
    ELSE IF L.text = Text(dotToken) /\ isSeparator(TokenText(r), Peek(r))
    THEN [L EXCEPT !.r = Fail(r, trailingPeriodError)]
    ELSE objectSub(L, Line(r), extractObject(r, TRUE))

\* an insertion that always replaces the value the key held
insertedValueReplacing(h, object, key, value) == [h |-> h, value |-> value]

\* lines 316-329: the value stored for key, value being the one after "=" or ":"
insertedValue(h, object, key, value) ==
    IF ~HasKey(h, object, key) THEN [h |-> h, value |-> value]
    ELSE
        LET existingValue == MapOf(h, object)[key]
            et == Type(existingValue)
            vt == Type(value)
        IN  IF et = ObjectType /\ vt = ObjectType
            THEN [h |-> mergeObjects(h, existingValue.ref, value.ref, FALSE),
                  value |-> existingValue]
            ELSE IF \/ (et = SubstitutionType /\ vt = SubstitutionType)
                    \/ (et = ObjectType /\ vt = SubstitutionType)
                    \/ (et = SubstitutionType /\ vt = ObjectType)
            THEN [h |-> Alloc(h, SliceCell(<<existingValue, value>>)),
                  value |-> concatenation(NewRef(h))]
            ELSE IF et = valueWithAlternativeType /\ vt = SubstitutionType
            THEN [h |-> h, value |-> valueWithAlternative(existingValue, value)]
            ELSE IF vt = SubstitutionType
            THEN [h |-> h, value |-> valueWithAlternative(existingValue, value)]
            ELSE [h |-> h, value |-> value]

\* line 331: object[key] = value
objectStore(L, lastRow, r, ins) ==
    [L EXCEPT !.lastRow = lastRow,
              !.r = [r EXCEPT !.h = MapSet(ins.h, L.object, L.key, ins.value)]]

\* lines 312-331: r is the parser after the call of extractValue
objectValue(L, lastRow, r) ==
    IF r.e # NoErr THEN [L EXCEPT !.r = r, !.lastRow = lastRow]
    ELSE objectRest(objectStore(L, lastRow, r, insertedValue(r.h, L.object, L.key, r.v)))

\* lines 306-342: the switch on the separator
objectSeparator(L) ==
    CASE L.text \in {Text(equalsToken), Text(colonToken)} ->
            objectValue(L, Line(advance(L.r)), extractValue(advance(L.r)))
      [] OTHER ->
            objectRest(IF L.text = Text("+") /\ Peek(L.r) = "="
                       THEN [L EXCEPT !.r = parsePlusEqualsValue(advance(advance(L.r)),
                                                                 L.object, L.key)]
                       ELSE L)

\* lines 276-342: a path expression or an object without separator (lines
\* 276-304), or else a separator and a value
objectEntry(L) ==
    IF ~Running(L) THEN L
    ELSE IF L.text = Text(dotToken) \/ L.text = Text(objectStartToken)
    THEN objectPathFrom(L, IF L.text = Text(dotToken) THEN advance(L.r) ELSE L.r)
    ELSE objectSeparator(L)

\* the body of the loop, lines 240-384, in the order of the code
objectBody(L) == objectEntry(objectKey(objectEnd(objectInclude(objectComments(L)))))

\* lines 387-391
objectResult(L) ==
    IF Failed(L.r) THEN L.r
    ELSE IF ~L.balanced
    THEN Fail(L.r, invalidObjectError(<<"parenthesis do not match">>))
    ELSE Return(L.r, Object(L.object))

\* line 239: the loop goes on while the body has not left it
extractObjectLoop(L) ==
    IF \/ L.ctl # "run"
       \/ L.r.e # NoErr
       \/ Peek(L.r) = EOFRune
    THEN objectResult(L)
    ELSE extractObjectLoop(objectBody(L))

\* lines 220-237: r is the parser with the new map allocated
objectStart(r, object, braces, isSubObject) ==
    IF braces /\ TokenIs(advance(r), objectEndToken)
    THEN Return(advance(advance(r)), Object(object))
    ELSE extractObjectLoop(
            [r |-> IF braces THEN advance(r) ELSE r, object |-> object,
             balanced |-> ~braces, lastRow |-> 0, isSubObject |-> isSubObject,
             key |-> "", text |-> Text(""), ctl |-> "run"])

extractObject(r, isSubObject) ==
    objectStart([r EXCEPT !.h = Alloc(r.h, MapCell(EmptyMap))], NewRef(r.h),
                TokenIs(r, objectStartToken), isSubObject)

(***************************************************************************)
(* The resolver (lines 127-217).                                           *)
(***************************************************************************)
\* os.LookupEnv(name): env maps the defined names to their values
LookupEnv(name) == IF name \in DOMAIN env THEN [ok |-> TRUE, v |-> env[name]]
                   ELSE [ok |-> FALSE, v |-> <<>>]

\* a lookup that asks the environment before the tree
lookupEnvironmentFirst(h, rootRef, substitution) ==
    IF LookupEnv(substitution.path).ok
    THEN [v |-> String(LookupEnv(substitution.path).v), e |-> NoErr]
    ELSE IF find(h, rootRef, substitution.path).v # Nil
    THEN [v |-> find(h, rootRef, substitution.path).v, e |-> NoErr]
    ELSE IF ~substitution.optional THEN [v |-> Nil, e |-> couldNotResolve(substitution)]
    ELSE [v |-> Nil, e |-> NoErr]

\* a lookup that takes every substitution it cannot resolve for an optional one
processSubstitutionTypeLenient(h, rootRef, substitution) ==
    IF find(h, rootRef, substitution.path).panic
    THEN [v |-> Nil, e |-> Panic("interface conversion")]
    ELSE IF find(h, rootRef, substitution.path).v # Nil
    THEN [v |-> find(h, rootRef, substitution.path).v, e |-> NoErr]
    ELSE IF LookupEnv(substitution.path).ok
    THEN [v |-> String(LookupEnv(substitution.path).v), e |-> NoErr]
    ELSE [v |-> Nil, e |-> NoErr]

\* processSubstitutionType (lines 208-217): [v, e]; v is Nil for (nil, nil)
processSubstitutionType(h, rootRef, substitution) ==
    LET found == find(h, rootRef, substitution.path)
        fromEnv == LookupEnv(substitution.path)
    IN  IF found.panic THEN [v |-> Nil, e |-> Panic("interface conversion")]
        ELSE IF found.v # Nil THEN [v |-> found.v, e |-> NoErr]
        ELSE IF fromEnv.ok THEN [v |-> String(fromEnv.v), e |-> NoErr]
        ELSE IF ~substitution.optional THEN [v |-> Nil, e |-> couldNotResolve(substitution)]
        ELSE [v |-> Nil, e |-> NoErr]

\* a resolver that keeps the primary value of every valueWithAlternative
processSubstitutionKeepingPrimary(h, rootRef, value) ==
    IF value = Nil
    THEN [effect |-> "error", v |-> Nil, e |-> Panic("nil value")]
    ELSE IF Type(value) = SubstitutionType
    THEN IF processSubstitutionType(h, rootRef, value).e # NoErr
         THEN [effect |-> "error", v |-> Nil, e |-> processSubstitutionType(h, rootRef, value).e]
         ELSE [effect |-> "set", v |-> processSubstitutionType(h, rootRef, value).v, e |-> NoErr]
    ELSE IF Type(value) = valueWithAlternativeType
    THEN [effect |-> "set", v |-> value.value, e |-> NoErr]
    ELSE IF Type(value) \in {ObjectType, ArrayType, ConcatenationType}
    THEN [effect |-> "recurse", v |-> value, e |-> NoErr]
    ELSE [effect |-> "none", v |-> Nil, e |-> NoErr]

\* processSubstitution (lines 179-206), as the effect it has on the slot that
\* holds value: "set" (resolveFunc is called with v), "recurse" (into value),
\* "none", or "error" with e
processSubstitution(h, rootRef, value) ==
    IF value = Nil
    THEN [effect |-> "error", v |-> Nil, e |-> Panic("nil value")]
    ELSE IF Type(value) = SubstitutionType
    THEN LET p == processSubstitutionType(h, rootRef, value)
         IN IF p.e # NoErr THEN [effect |-> "error", v |-> Nil, e |-> p.e]
            ELSE [effect |-> "set", v |-> p.v, e |-> NoErr]
    ELSE IF Type(value) = valueWithAlternativeType
    THEN LET p == processSubstitutionType(h, rootRef, value.alternative)
         IN IF p.e # NoErr THEN [effect |-> "error", v |-> Nil, e |-> p.e]
            ELSE IF p.v # Nil THEN [effect |-> "set", v |-> p.v, e |-> NoErr]
            ELSE [effect |-> "set", v |-> value.value, e |-> NoErr]
    ELSE IF Type(value) \in {ObjectType, ArrayType, ConcatenationType}
    THEN [effect |-> "recurse", v |-> value, e |-> NoErr]
    ELSE [effect |-> "none", v |-> Nil, e |-> NoErr]

\* concatenation.containsObject (src/config.go, lines 507-515): "panic" when
\* an element before the first Object is the nil interface value
RECURSIVE containsObject(_)
containsObject(elems) ==
    IF elems = <<>> THEN "false"
    ELSE IF Head(elems) = Nil THEN "panic"
    ELSE IF Type(Head(elems)) = ObjectType THEN "true"
    ELSE containsObject(Tail(elems))

\* lines 158-167: merge the elements into merged; [h, e]
RECURSIVE mergeElements(_, _, _, _)
mergeElements(h, merged, elems, rev) ==
    IF elems = <<>> THEN [h |-> h, e |-> NoErr]
    ELSE IF Head(elems).t # "Object" THEN [h |-> h, e |-> invalidConcatenationError]
    ELSE LET h1 == mergeObjects(h, merged, Head(elems).ref, rev)
         IN IF h1 = OverflowHeap THEN [h |-> h, e |-> Panic("stack overflow")]
            ELSE IF IsPanic(h1) THEN [h |-> h, e |-> Panic("nil value")]
            ELSE mergeElements(h1, merged, Tail(elems), rev)

\* A call of resolveSubstitutions in progress: the container it ranges over
\* (a map: the keys not yet visited; a slice: the next index and the length
\* the range started with) and, in an Object, the entry whose value is
\* being resolved by a nested call (lines 152-157).
Frame(value, h) ==
    [kind |-> value.t, ref |-> value.ref,
     keys |-> IF value.t = "Object" THEN DOMAIN MapOf(h, value.ref) ELSE {},
     idx |-> 1,
     len |-> IF value.t = "Object" THEN 0 ELSE Len(SliceOf(h, value.ref)),
     pending |-> FALSE, key |-> "", value |-> Nil]

NoStep == [kind |-> "none"]

(***************************************************************************)
(* The tree a value stands for: what reflect.DeepEqual compares            *)
(* (src/helpers_test.go, assertDeepEqual).  A reference met below          *)
(* MaxDepth levels is shown as "cut": a tree built by the parser is less   *)
(* deep, a heap with a cycle is cut there.                                 *)
(***************************************************************************)
MaxDepth == 6

RECURSIVE Tree(_, _, _)
Tree(h, v, d) ==
    IF v.t \in {"Object", "Array", "concatenation"} /\ d = 0 THEN [t |-> "cut"]
    ELSE IF v.t = "Object"
    THEN [t |-> "Object",
          fields |-> [k \in DOMAIN MapOf(h, v.ref) |-> Tree(h, MapOf(h, v.ref)[k], d - 1)]]
    ELSE IF v.t \in {"Array", "concatenation"}
    THEN [t |-> v.t,
          elems |-> [i \in 1..Len(SliceOf(h, v.ref)) |-> Tree(h, SliceOf(h, v.ref)[i], d - 1)]]
    ELSE IF v.t = "valueWithAlternative"
    THEN [t |-> v.t, value |-> Tree(h, v.value, d), alternative |-> v.alternative]
    ELSE v

TreeOf(h, v) == Tree(h, v, MaxDepth)

(***************************************************************************)
(* parse (lines 85-112), up to the call of resolveSubstitutions.           *)
(***************************************************************************)
\* lines 98-104: r is the parser after the call of extractObject
parseEnd(r) ==
    IF Failed(r) THEN r
    ELSE IF TokenText(r) # Text("")
    THEN Fail(r, invalidObjectError(<<"invalid token", TokenText(r).body>>))
    ELSE r

\* lines 88-97: r is the parser after the first advance
parseRoot(r) ==
    IF TokenIs(r, arrayStartToken) THEN extractArray(r) ELSE parseEnd(extractObject(r, FALSE))

parseResult(src) == parseRoot(advance(newParser(src, <<>>)))

Outcome(e) == IF e = NoErr THEN "done"
              ELSE IF e[1] = "panic" THEN "panic"
              ELSE IF e = Diverges THEN "hang"
              ELSE "done"

\* an Object root goes on to resolveSubstitutions (line 106); an error and an
\* Array root (line 94) end the call
Parsed(r) ==
    /\ heap' = r.h
    /\ root' = r.v
    /\ err' = r.e
    /\ parsed' = IF Failed(r) THEN Nil ELSE TreeOf(r.h, r.v)
    /\ files' = [opened |-> r.opened, closed |-> r.closed]
    /\ pc' = IF ~Failed(r) /\ r.v.t = "Object" THEN "resolve" ELSE Outcome(r.e)
    /\ stack' = IF ~Failed(r) /\ r.v.t = "Object" THEN << Frame(r.v, r.h) >> ELSE <<>>

Parse ==
    /\ pc = "start"
    /\ Parsed(parseResult(input))
    /\ UNCHANGED <<input, env, fs, step, doc>>

(***************************************************************************)
(* resolveSubstitutions (lines 127-177), one loop iteration per step.      *)
(***************************************************************************)
Stop(e) ==
    /\ err' = e
    /\ pc' = Outcome(e)
    /\ stack' = <<>>

\* what an iteration does to the slot it visits, p being the result of
\* processSubstitution; visited is the frame after the iteration, entered a
\* frame for the value, waiting the frame while the value is being resolved
Visit(p, heapSet, visited, entered, waiting) ==
    CASE p.effect = "error" ->
            /\ Stop(p.e)
            /\ UNCHANGED heap
      [] p.effect = "set" ->
            /\ heap' = heapSet
            /\ stack' = <<visited>> \o Tail(stack)
            /\ UNCHANGED <<err, pc>>
      [] p.effect = "recurse" ->
            IF Len(stack) >= MaxCalls
            THEN /\ Stop(Panic("stack overflow"))
                 /\ UNCHANGED heap
            ELSE /\ stack' = <<entered, waiting>> \o Tail(stack)
                 /\ UNCHANGED <<heap, err, pc>>
      [] p.effect = "none" ->
            /\ stack' = <<visited>> \o Tail(stack)
            /\ UNCHANGED <<heap, err, pc>>

VisitEntry(top, key, value, p) ==
    /\ step' = [kind |-> p.effect, ref |-> top.ref, key |-> key, idx |-> 0,
                old |-> value, new |-> p.v]
    /\ Visit(p, MapSet(heap, top.ref, key, p.v),
             [top EXCEPT !.keys = @ \ {key}],
             Frame(value, heap),
             [top EXCEPT !.keys = @ \ {key}, !.pending = TRUE, !.key = key, !.value = value])

\* case Object (lines 151-156): the range produces the remaining keys in any order
ResolveObjectEntry ==
    /\ pc = "resolve"
    /\ stack # <<>>
    /\ Head(stack).kind = "Object"
    /\ ~Head(stack).pending
    /\ \E key \in Head(stack).keys :
            VisitEntry(Head(stack), key, MapOf(heap, Head(stack).ref)[key],
                       processSubstitution(heap, root.ref, MapOf(heap, Head(stack).ref)[key]))
    /\ UNCHANGED <<input, env, fs, root, parsed, files, doc>>

VisitElement(top, value, p) ==
    /\ step' = [kind |-> p.effect, ref |-> top.ref, key |-> "", idx |-> top.idx,
                old |-> value, new |-> p.v]
    /\ Visit(p, SliceSet(heap, top.ref, top.idx, p.v),
             [top EXCEPT !.idx = @ + 1],
             Frame(value, heap),
             [top EXCEPT !.idx = @ + 1])

\* case Array and case concatenation (lines 136-149)
ResolveSliceElement ==
    /\ pc = "resolve"
    /\ stack # <<>>
    /\ Head(stack).kind \in {"Array", "concatenation"}
    /\ Head(stack).idx <= Head(stack).len
    /\ VisitElement(Head(stack), SliceOf(heap, Head(stack).ref)[Head(stack).idx],
                    processSubstitution(heap, root.ref,
                                        SliceOf(heap, Head(stack).ref)[Head(stack).idx]))
    /\ UNCHANGED <<input, env, fs, root, parsed, files, doc>>

\* lines 158-169: m is the result of merging the elements into the new map merged
reduced(h, rootRef, key, merged, m) ==
    IF m.e # NoErr THEN [h |-> h, e |-> m.e, inserted |-> FALSE]
    ELSE [h |-> MapSet(m.h, rootRef, key, Object(merged)), e |-> NoErr,
          inserted |-> ~HasKey(h, rootRef, key)]

\* lines 157-170: what the Object loop does with the entry (key, value) once
\* processSubstitution has returned: [h, e, inserted]
reduceConcatenation(h, rootRef, key, value, rev) ==
    IF value.t # "concatenation" \/ containsObject(SliceOf(h, value.ref)) = "false"
    THEN [h |-> h, e |-> NoErr, inserted |-> FALSE]
    ELSE IF containsObject(SliceOf(h, value.ref)) = "panic"
    THEN [h |-> h, e |-> Panic("nil value"), inserted |-> FALSE]
    ELSE reduced(h, rootRef, key, NewRef(h),
                 mergeElements(Alloc(h, MapCell(EmptyMap)), NewRef(h),
                               SliceOf(h, value.ref), rev))

\* the frames of the callers once the innermost call has returned to the loop
\* of an Object: the entry is no longer pending, and an entry created in the
\* root during a range over the root may be produced by that range or not
Callers(rest, red, again) ==
    [i \in 1..Len(rest) |->
        [rest[i] EXCEPT
            !.pending = IF i = 1 THEN FALSE ELSE @,
            !.keys = IF red.inserted /\ again /\ rest[i].kind = "Object"
                        /\ rest[i].ref = root.ref
                     THEN @ \cup {rest[1].key} ELSE @]]

Returned(rest, red, again) ==
    IF red.e # NoErr
    THEN /\ Stop(red.e)
         /\ step' = [kind |-> "failed"]
         /\ UNCHANGED heap
    ELSE /\ heap' = red.h
         /\ stack' = Callers(rest, red, again)
         /\ step' = [kind |-> IF red.h = heap THEN "return" ELSE "reduce",
                     ref |-> root.ref, key |-> rest[1].key]
         /\ UNCHANGED <<err, pc>>

\* A range loop ends and resolveSubstitutions returns nil to its caller:
\* parse (line 106), or processSubstitution called from the loop of an
\* enclosing container, which goes on after the call (lines 153-170 for an
\* Object, the next element for a slice).
ResolveReturn ==
    /\ pc = "resolve"
    /\ stack # <<>>
    /\ IF Head(stack).kind = "Object"
       THEN Head(stack).keys = {} /\ ~Head(stack).pending
       ELSE Head(stack).idx > Head(stack).len
    /\ IF Tail(stack) = <<>>
       THEN /\ pc' = "done"
            /\ stack' = <<>>
            /\ step' = [kind |-> "return"]
            /\ UNCHANGED <<heap, err>>
       ELSE IF Head(Tail(stack)).kind # "Object"
       THEN /\ stack' = Tail(stack)
            /\ step' = [kind |-> "return"]
            /\ UNCHANGED <<heap, err, pc>>
       ELSE \E rev \in BOOLEAN, again \in BOOLEAN :
               Returned(Tail(stack),
                        reduceConcatenation(heap, root.ref, Head(Tail(stack)).key,
                                            Head(Tail(stack)).value, rev),
                        again)
    /\ UNCHANGED <<input, env, fs, root, parsed, files, doc>>

(***************************************************************************)
(* Source texts.  The lexemes text/scanner cuts a text into: an            *)
(* identifier, an Int literal, a quoted string, a single character; Sp and *)
(* Nl put a space or a line break after a lexeme.                          *)
(***************************************************************************)
Lex(body, rune) == [body |-> body, rune |-> rune, num |-> 0, gap |-> <<>>, raw |-> <<>>]

Id(s) == Lex(s, "Ident")

Ch(c) == Lex(c, "Char")

Str(s) == Lex(s, "String")

Num(n) == [Lex(ToString(n), "Int") EXCEPT !.num = n]

\* a Float literal: its text and its value in thousandths
Flt(s, thousandths) == [Lex(s, "Float") EXCEPT !.num = thousandths]

Sp(lex) == [lex EXCEPT !.gap = @ \o <<" ">>]

Nl(lex) == [lex EXCEPT !.gap = @ \o <<"\n">>]

\* ${path} and ${?path}, path being a sequence of lexemes
Sub(path) == <<Ch("$"), Ch("{")>> \o path \o <<Ch("}")>>

OptSub(path) == <<Ch("$"), Ch("{"), Ch("?")>> \o path \o <<Ch("}")>>

\* the texts of a list, joined by sep
RECURSIVE Join(_, _)
Join(texts, sep) ==
    IF texts = <<>> THEN <<>>
    ELSE IF Len(texts) = 1 THEN texts[1]
    ELSE texts[1] \o sep \o Join(Tail(texts), sep)

\* the sequences of 1..n elements of S
RECURSIVE SeqsUpTo(_, _)
SeqsUpTo(S, n) ==
    IF n = 0 THEN {}
    ELSE { <<x>> : x \in S } \cup
         { <<x>> \o s : x \in S, s \in SeqsUpTo(S, n - 1) }

(***************************************************************************)
(* Documents.  A document is a list of entries; an entry is a field        *)
(* (a key path, a separator, a value expression) or an include directive.  *)
(* TextOf writes a document as the text handed to the parser.              *)
(***************************************************************************)
VInt(n) == [v |-> "int", n |-> n]

VStr(s) == [v |-> "str", s |-> s]

VObj(entries) == [v |-> "obj", entries |-> entries]

VArr(items) == [v |-> "arr", items |-> items]

VSub(path) == [v |-> "sub", path |-> path, optional |-> FALSE]

VOptSub(path) == [v |-> "sub", path |-> path, optional |-> TRUE]

\* several simple values on one line, one space between them
VCat(parts) == [v |-> "cat", parts |-> parts]

\* sep is ":", "=", "{" (the value is an object) or "+="
Field(path, sep, value) == [e |-> "field", path |-> path, sep |-> sep, value |-> value]

Include(file) == [e |-> "include", file |-> file, required |-> FALSE]

IncludeRequired(file) == [e |-> "include", file |-> file, required |-> TRUE]

\* a.b.c
PathText(path) == Join([i \in 1..Len(path) |-> <<Id(path[i])>>], <<Ch(".")>>)

\* the text followed by one more character of white space
Then1(text, c) ==
    [i \in 1..Len(text) |-> IF i = Len(text) THEN [text[i] EXCEPT !.gap = @ \o <<c>>]
                            ELSE text[i]]

RECURSIVE ValueText(_)
RECURSIVE EntryText(_)
ValueText(x) ==
    CASE x.v = "int" -> <<Num(x.n)>>
      [] x.v = "str" -> <<Id(x.s)>>
      [] x.v = "sub" -> IF x.optional THEN OptSub(PathText(x.path)) ELSE Sub(PathText(x.path))
      [] x.v = "obj" ->
            <<Sp(Ch("{"))>>
            \o Join([i \in 1..Len(x.entries) |-> EntryText(x.entries[i])], <<Sp(Ch(","))>>)
            \o <<Ch("}")>>
      [] x.v = "arr" ->
            <<Ch("[")>>
            \o Join([i \in 1..Len(x.items) |-> ValueText(x.items[i])], <<Sp(Ch(","))>>)
            \o <<Ch("]")>>
      [] x.v = "cat" ->
            Join([i \in 1..Len(x.parts) |->
                    IF i < Len(x.parts) THEN Then1(ValueText(x.parts[i]), " ")
                    ELSE ValueText(x.parts[i])], <<>>)

EntryText(x) ==
    IF x.e = "include"
    THEN IF x.required
         THEN <<Sp(Id("include")), Id("required"), Ch("("), Str(x.file), Ch(")")>>
         ELSE <<Sp(Id("include")), Str(x.file)>>
    ELSE CASE x.sep = ":" -> PathText(x.path) \o <<Sp(Ch(":"))>> \o ValueText(x.value)
           [] x.sep = "=" -> Then1(PathText(x.path), " ") \o <<Sp(Ch("="))>> \o ValueText(x.value)
           [] x.sep = "{" -> Then1(PathText(x.path), " ") \o ValueText(x.value)
           [] x.sep = "+=" -> Then1(PathText(x.path), " ") \o <<Ch("+"), Sp(Ch("="))>>
                              \o ValueText(x.value)

\* the entries on one line, separated by commas
TextOf(entries) == Join([i \in 1..Len(entries) |-> EntryText(entries[i])], <<Sp(Ch(","))>>)

\* the entries one per line
LinesOf(entries) ==
    Join([i \in 1..Len(entries) |->
            IF i < Len(entries) THEN Then1(EntryText(entries[i]), "\n")
            ELSE EntryText(entries[i])], <<>>)

\* a document: the entries of a root object, the items of a root array, or
\* a text given lexeme by lexeme
Document(entries) == [kind |-> "object", entries |-> entries]

ByLine(entries) == [kind |-> "lines", entries |-> entries]

ArrayDocument(items) == [kind |-> "array", items |-> items]

Written(text) == [kind |-> "text", text |-> text]

DocText(d) ==
    CASE d.kind = "object" -> TextOf(d.entries)
      [] d.kind = "lines" -> LinesOf(d.entries)
      [] d.kind = "array" -> ValueText(VArr(d.items))
      [] d.kind = "text" -> d.text

(***************************************************************************)
(* The environment and the file system of a run.                           *)
(***************************************************************************)
EmptyEnv == << >>

\* the variables a and e are set
SomeEnv == [p \in {<<"a">>, <<"e">>} |-> <<"from-env">>]

Readable(entries) == [ok |-> TRUE, src |-> TextOf(entries)]

Unopenable == [ok |-> FALSE, src |-> <<>>]

\* a.conf holds  a { x: 1 }, b: 2 ;  arr.conf holds  [1] ;  locked exists but
\* cannot be opened; no other file exists
AConf ==
    << Field(<<"a">>, "{", VObj(<<Field(<<"x">>, ":", VInt(1))>>)),
       Field(<<"b">>, ":", VInt(2)) >>

Files ==
    [name \in {"a.conf", "arr.conf", "locked"} |->
        CASE name = "a.conf" -> Readable(AConf)
          [] name = "arr.conf" -> [ok |-> TRUE, src |-> ValueText(VArr(<<VInt(1)>>))]
          [] name = "locked" -> Unopenable]

(***************************************************************************)
(* Documents every specification starts from.                              *)
(***************************************************************************)
Seeded ==
    { \* a: ${b}, b: ${c}, c: 1
      Document(<< Field(<<"a">>, ":", VSub(<<"b">>)), Field(<<"b">>, ":", VSub(<<"c">>)),
                  Field(<<"c">>, ":", VInt(1)) >>),
      \* a: [${b}, 1], b: 2
      Document(<< Field(<<"a">>, ":", VArr(<<VSub(<<"b">>), VInt(1)>>)),
                  Field(<<"b">>, ":", VInt(2)) >>),
      \* a: {x: 1}, b: {y: 2}, c: ${a}, c: ${b}
      Document(<< Field(<<"a">>, ":", VObj(<<Field(<<"x">>, ":", VInt(1))>>)),
                  Field(<<"b">>, ":", VObj(<<Field(<<"y">>, ":", VInt(2))>>)),
                  Field(<<"c">>, ":", VSub(<<"a">>)), Field(<<"c">>, ":", VSub(<<"b">>)) >>),
      \* a: ${e} x
      Document(<< Field(<<"a">>, ":", VCat(<<VSub(<<"e">>), VStr("x")>>)) >>),
      \* [${a}]
      ArrayDocument(<<VSub(<<"a">>)>>) }

InitWith(documents, environments) ==
    /\ doc \in documents
    /\ input = DocText(doc)
    /\ env \in environments
    /\ fs = Files
    /\ pc = "start"
    /\ heap = <<>>
    /\ root = Nil
    /\ stack = <<>>
    /\ err = NoErr
    /\ parsed = Nil
    /\ step = NoStep
    /\ files = [opened |-> 0, closed |-> 0]

Next ==
    \/ Parse
    \/ ResolveObjectEntry
    \/ ResolveSliceElement
    \/ ResolveReturn

(***************************************************************************)
(* Documents with substitutions: up to MaxEntries entries out of           *)
(*   a: 1    b: ${a}    b: ${?a}    c: ${e}    c: ${?u}    c: ${u}         *)
(*   d: [${a}]    b: ${c}                                                  *)
(* e is set in one of the environments; u is set in none.                  *)
(***************************************************************************)
MaxEntries == 3

SubstitutionEntries ==
    { Field(<<"a">>, ":", VInt(1)),
      Field(<<"b">>, ":", VSub(<<"a">>)),
      Field(<<"b">>, ":", VOptSub(<<"a">>)),
      Field(<<"c">>, ":", VSub(<<"e">>)),
      Field(<<"c">>, ":", VOptSub(<<"u">>)),
      Field(<<"c">>, ":", VSub(<<"u">>)),
      Field(<<"d">>, ":", VArr(<<VSub(<<"a">>)>>)),
      Field(<<"b">>, ":", VSub(<<"c">>)) }

SubstitutionDocuments == { Document(s) : s \in SeqsUpTo(SubstitutionEntries, MaxEntries) }

Init == InitWith(Seeded \cup SubstitutionDocuments, {EmptyEnv, SomeEnv})

Spec == Init /\ [][Next]_vars

(***************************************************************************)
(* C1.  Resolving a Substitution with path p follows a fixed lookup order: *)
(* when root.find(p) yields a value, the slot that held the substitution   *)
(* holds that value afterwards; otherwise, when the environment defines p, *)
(* the slot holds String(value of the variable); otherwise, when the       *)
(* substitution is required, resolution fails with 'could not resolve      *)
(* substitution: ${p} to a value'.  The tree is asked before the           *)
(* environment.  (A find that faults on a non-Object segment is left to    *)
(* the claim about find.)                                                  *)
(***************************************************************************)
\* the slot the last step visited, as it is in heap h
SlotIn(h, s) == IF s.idx = 0 THEN MapOf(h, s.ref)[s.key] ELSE SliceOf(h, s.ref)[s.idx]

LookupOrder ==
    [][ (pc = "resolve" /\ step'.kind \in {"set", "error"} /\ step'.old.t = "Substitution")
        => LET p == step'.old.path
               found == find(heap, root.ref, p)
           IN  found.panic
               \/ IF found.v # Nil
                  THEN step'.kind = "set" /\ SlotIn(heap', step') = found.v
                  ELSE IF p \in DOMAIN env
                  THEN step'.kind = "set" /\ SlotIn(heap', step') = String(env[p])
                  ELSE \/ step'.old.optional
                       \/ /\ pc' = "done"
                          /\ err' = <<"could not resolve substitution", "${">> \o p
                                        \o <<"} to a value">>
      ]_vars

\* a substitution whose path is set in the environment and present in the
\* tree has been replaced by the tree's value
LookupOrderWitness ==
    /\ step.kind = "set"
    /\ step.old.t = "Substitution"
    /\ step.old.path \in DOMAIN env
    /\ step.new.t = "Int"
    /\ SlotIn(heap, step) = step.new

(***************************************************************************)
(* C2.  Whenever parse returns successfully, the returned root is fully    *)
(* resolved: no required Substitution and no valueWithAlternative is       *)
(* reachable from it, whether the root is an Object or an Array, and also  *)
(* when the target of a substitution is itself a substitution.             *)
(***************************************************************************)
RECURSIVE ResolvedTree(_)
ResolvedTree(tree) ==
    CASE tree.t = "Object" -> \A k \in DOMAIN tree.fields : ResolvedTree(tree.fields[k])
      [] tree.t \in {"Array", "concatenation"} ->
            \A i \in DOMAIN tree.elems : ResolvedTree(tree.elems[i])
      [] tree.t = "Substitution" -> tree.optional
      [] tree.t = "valueWithAlternative" -> FALSE
      [] OTHER -> TRUE

FullyResolved == (pc = "done" /\ err = NoErr) => ResolvedTree(TreeOf(heap, root))

(***************************************************************************)
(* What a document means, as the claims below read it: the tree of a       *)
(* value expression and of a list of entries, computed on trees alone,     *)
(* without parser and without heap.  A list of entries is read from left   *)
(* to right, every entry changing the tree built so far; the result is a   *)
(* tree or an error [t |-> "error", e |-> the error].                      *)
(***************************************************************************)
EmptyObjectTree == [t |-> "Object", fields |-> << >>]

ErrorTree(e) == [t |-> "error", e |-> e]

\* the deep merge of two Object trees, b winning
RECURSIVE MergedTree(_, _)
MergedTree(a, b) ==
    [t |-> "Object",
     fields |-> [k \in DOMAIN a.fields \cup DOMAIN b.fields |->
                    IF k \notin DOMAIN b.fields THEN a.fields[k]
                    ELSE IF k \in DOMAIN a.fields /\ a.fields[k].t = "Object"
                            /\ b.fields[k].t = "Object"
                    THEN MergedTree(a.fields[k], b.fields[k])
                    ELSE b.fields[k]]]

\* tree with key k holding v
WithField(tree, k, v) ==
    [tree EXCEPT !.fields = [j \in DOMAIN @ \cup {k} |-> IF j = k THEN v ELSE @[j]]]

\* the path of a substitution as the parser keeps it: the keys and the dots
PathTokens(path) == Join([i \in 1..Len(path) |-> <<path[i]>>], <<dotToken>>)

\* the value a key holds after "key: new" (or "=", or the "{" form) when it
\* held existing
InsertedTree(existing, new) ==
    IF existing.t = "Object" /\ new.t = "Object" THEN MergedTree(existing, new)
    ELSE IF \/ (existing.t \in {"Object", "Substitution"} /\ new.t = "Substitution")
            \/ (existing.t = "Substitution" /\ new.t = "Object")
    THEN [t |-> "concatenation", elems |-> <<existing, new>>]
    ELSE IF new.t = "Substitution"
    THEN [t |-> "valueWithAlternative", value |-> existing, alternative |-> new]
    ELSE new

\* the value a key holds after "key += new"
AppendedTree(key, tree, new) ==
    IF key \notin DOMAIN tree.fields THEN [t |-> "Array", elems |-> <<new>>]
    ELSE IF tree.fields[key].t = "Array"
    THEN [t |-> "Array", elems |-> Append(tree.fields[key].elems, new)]
    ELSE ErrorTree(<<"invalidValue", "value of the key", key, "is not an array">>)

\* tree after the entry "key sep new"
AssignedTree(tree, key, sep, new) ==
    IF new.t = "error" THEN new
    ELSE IF sep = "+="
    THEN IF AppendedTree(key, tree, new).t = "error" THEN AppendedTree(key, tree, new)
         ELSE WithField(tree, key, AppendedTree(key, tree, new))
    ELSE IF key \in DOMAIN tree.fields
    THEN WithField(tree, key, InsertedTree(tree.fields[key], new))
    ELSE WithField(tree, key, new)

\* tree after the entry "path sep new": a.b.c stands for a { b { c } }, the
\* objects on the way being merged with the ones already there
RECURSIVE PathTree(_, _, _, _)
PathTree(tree, path, sep, new) ==
    IF Len(path) = 1 THEN AssignedTree(tree, path[1], sep, new)
    ELSE LET below == IF path[1] \in DOMAIN tree.fields /\ tree.fields[path[1]].t = "Object"
                      THEN tree.fields[path[1]] ELSE EmptyObjectTree
             inner == PathTree(below, Tail(path), sep, new)
         IN IF inner.t = "error" THEN inner ELSE WithField(tree, path[1], inner)

RECURSIVE ValueTree(_)
RECURSIVE EntriesTree(_, _)
ValueTree(x) ==
    CASE x.v = "int" -> IntVal(x.n)
      [] x.v = "str" -> String(<<x.s>>)
      [] x.v = "sub" -> Substitution(PathTokens(x.path), x.optional)
      [] x.v = "obj" -> EntriesTree(x.entries, EmptyObjectTree)
      [] x.v = "arr" -> [t |-> "Array", elems |-> [i \in 1..Len(x.items) |-> ValueTree(x.items[i])]]
      [] x.v = "cat" ->
            [t |-> "concatenation",
             elems |-> [i \in 1..(2 * Len(x.parts) - 1) |->
                          IF i % 2 = 1 THEN ValueTree(x.parts[(i + 1) \div 2])
                          ELSE String(<<" ">>)]]

EntriesTree(entries, tree) ==
    IF entries = <<>> \/ tree.t = "error" THEN tree
    ELSE EntriesTree(Tail(entries),
                     PathTree(tree, Head(entries).path, Head(entries).sep,
                              ValueTree(Head(entries).value)))

\* the error of os.Open(file), "" when the file is opened
OpenError(file) ==
    IF file \notin DOMAIN Files THEN ErrNotExist
    ELSE IF ~Files[file].ok THEN ErrPermission
    ELSE ""

\* the object the directive x includes; recovered are the errors of os.Open
\* after which a directive without required(...) includes the empty object
IncludedTree(x, recovered) ==
    IF OpenError(x.file) = "" THEN EntriesTree(AConf, EmptyObjectTree)
    ELSE IF ~x.required /\ OpenError(x.file) \in recovered THEN EmptyObjectTree
    ELSE ErrorTree(couldNotParseResource(OpenError(x.file)))

\* tree after each of the entries, fields and include directives, from left
\* to right
RECURSIVE IncludingTree(_, _, _)
IncludingTree(entries, tree, recovered) ==
    IF entries = <<>> \/ tree.t = "error" THEN tree
    ELSE IncludingTree(Tail(entries),
                       IF Head(entries).e = "field" THEN EntriesTree(<<Head(entries)>>, tree)
                       ELSE IF IncludedTree(Head(entries), recovered).t = "error"
                       THEN IncludedTree(Head(entries), recovered)
                       ELSE MergedTree(tree, IncludedTree(Head(entries), recovered)),
                       recovered)

\* a value expression, and a list of fields, in which no substitution occurs
RECURSIVE PlainValue(_)
RECURSIVE PlainFields(_)
PlainValue(x) ==
    CASE x.v \in {"int", "str"} -> TRUE
      [] x.v = "sub" -> FALSE
      [] x.v = "obj" -> PlainFields(x.entries)
      [] x.v = "arr" -> \A i \in 1..Len(x.items) : PlainValue(x.items[i])
      [] x.v = "cat" -> \A i \in 1..Len(x.parts) : PlainValue(x.parts[i])

PlainFields(entries) ==
    \A i \in 1..Len(entries) : entries[i].e = "field" /\ PlainValue(entries[i].value)

\* the fields are all written key: value, key = value or key { ... }
SimpleKeys(entries) ==
    \A i \in 1..Len(entries) :
        entries[i].e = "field" /\ Len(entries[i].path) = 1 /\ entries[i].sep \in {":", "=", "{"}

(***************************************************************************)
(* Documents that assign the key a several times, without substitutions:   *)
(* up to MaxEntries entries out of                                         *)
(*   a: 1    a = x    a { x: 1 }    a: { y: 2 }    a = { x: { p: 1 } }     *)
(*   a { x: { q: 2 } }    a: [1]    b: 2                                   *)
(***************************************************************************)
DuplicateKeyEntries ==
    { Field(<<"a">>, ":", VInt(1)),
      Field(<<"a">>, "=", VStr("x")),
      Field(<<"a">>, "{", VObj(<<Field(<<"x">>, ":", VInt(1))>>)),
      Field(<<"a">>, ":", VObj(<<Field(<<"y">>, ":", VInt(2))>>)),
      Field(<<"a">>, "=", VObj(<<Field(<<"x">>, "{", VObj(<<Field(<<"p">>, ":", VInt(1))>>))>>)),
      Field(<<"a">>, "{", VObj(<<Field(<<"x">>, ":", VObj(<<Field(<<"q">>, ":", VInt(2))>>))>>)),
      Field(<<"a">>, ":", VArr(<<VInt(1)>>)),
      Field(<<"b">>, ":", VInt(2)) }

DuplicateKeyDocuments == { Document(s) : s \in SeqsUpTo(DuplicateKeyEntries, MaxEntries) }

InitKeys == InitWith(Seeded \cup DuplicateKeyDocuments, {EmptyEnv})

SpecKeys == InitKeys /\ [][Next]_vars

(***************************************************************************)
(* C3.  Duplicate keys in one object, no substitution involved: when a key *)
(* is assigned again with "=", ":" or the "{" form, a new Object is merged *)
(* recursively into an existing Object and in every other case the new     *)
(* value replaces the old one; so the tree built is the one obtained by    *)
(* reading the entries from left to right with that rule, and the value of *)
(* a key is decided by its last non-Object assignment and the Object       *)
(* assignments after it.                                                   *)
(***************************************************************************)
\* the entries of the list that assign key
AssignmentsTo(entries, key) == SelectSeq(entries, LAMBDA x : x.path = <<key>>)

\* the assignments from the last one whose value is no object on
FromLastNonObject(entries) ==
    LET last == { i \in 1..Len(entries) : entries[i].value.v # "obj" }
    IN IF last = {} THEN entries
       ELSE SubSeq(entries, CHOOSE i \in last : \A j \in last : j <= i, Len(entries))

DuplicateKeys ==
    (pc # "start" /\ doc.kind = "object" /\ SimpleKeys(doc.entries) /\ PlainFields(doc.entries))
    => /\ err = NoErr
       /\ parsed = EntriesTree(doc.entries, EmptyObjectTree)
       /\ TreeOf(heap, root) = parsed
       /\ \A key \in DOMAIN parsed.fields :
            parsed.fields[key]
                = EntriesTree(FromLastNonObject(AssignmentsTo(doc.entries, key)),
                              EmptyObjectTree).fields[key]

\* a = { x { p: 1 } } followed by a { x: { q: 2 } } has given a: { x: { p: 1, q: 2 } }
DuplicateKeysWitness ==
    /\ pc = "done"
    /\ doc.kind = "object" /\ SimpleKeys(doc.entries) /\ PlainFields(doc.entries)
    /\ Len(AssignmentsTo(doc.entries, "a")) >= 2
    /\ "a" \in DOMAIN parsed.fields
    /\ parsed.fields["a"].t = "Object"
    /\ "x" \in DOMAIN parsed.fields["a"].fields
    /\ parsed.fields["a"].fields["x"].t = "Object"
    /\ DOMAIN parsed.fields["a"].fields["x"].fields = {"p", "q"}

(***************************************************************************)
(* Documents with path expressions as keys, and the same entries written   *)
(* with nested objects: up to MaxEntries entries out of                    *)
(*   a.b.c: x y    a { b { c: x y } }    a.b: x y    a.b.c: 1    a.b: 1    *)
(*   a.c: 2    a { b: 1 }    a.b { p: 1 }                                  *)
(***************************************************************************)
PathKeyEntries ==
    { Field(<<"a", "b", "c">>, ":", VCat(<<VStr("x"), VStr("y")>>)),
      Field(<<"a">>, "{", VObj(<<Field(<<"b">>, "{",
            VObj(<<Field(<<"c">>, ":", VCat(<<VStr("x"), VStr("y")>>))>>))>>)),
      Field(<<"a", "b">>, ":", VCat(<<VStr("x"), VStr("y")>>)),
      Field(<<"a", "b", "c">>, ":", VInt(1)),
      Field(<<"a", "b">>, ":", VInt(1)),
      Field(<<"a", "c">>, ":", VInt(2)),
      Field(<<"a">>, "{", VObj(<<Field(<<"b">>, ":", VInt(1))>>)),
      Field(<<"a", "b">>, "{", VObj(<<Field(<<"p">>, ":", VInt(1))>>)) }

PathKeyDocuments == { Document(s) : s \in SeqsUpTo(PathKeyEntries, MaxEntries) }

InitPaths == InitWith(Seeded \cup PathKeyDocuments, {EmptyEnv})

SpecPaths == InitPaths /\ [][Next]_vars

\* the entry a.b.c sep v written with nested objects: a { b { c sep v } }
RECURSIVE NestedField(_)
NestedField(entry) ==
    IF Len(entry.path) = 1 THEN entry
    ELSE Field(<<entry.path[1]>>, "{",
               VObj(<<NestedField([entry EXCEPT !.path = Tail(@)])>>))

NestedFields(entries) == [i \in 1..Len(entries) |-> NestedField(entries[i])]

\* some key of the entries is a path expression
SomePathKey(entries) == \E i \in 1..Len(entries) : Len(entries[i].path) > 1

(***************************************************************************)
(* C4.  Path expressions as keys are nested objects: a document without    *)
(* substitutions whose keys may be path expressions (a.b.c: v, v a value   *)
(* or several values on one line) is parsed without error into the tree of *)
(* the document in which every a.b.c: v is written a { b { c: v } }, path  *)
(* keys with a common prefix giving one merged object.                     *)
(***************************************************************************)
PathKeysAsNested ==
    (pc # "start" /\ doc.kind = "object" /\ PlainFields(doc.entries))
    => /\ err = NoErr
       /\ parsed = EntriesTree(NestedFields(doc.entries), EmptyObjectTree)

\* the part of it that the parser does fulfil: single values after path keys
PathKeysOfSingleValues ==
    (/\ pc # "start" /\ doc.kind = "object" /\ PlainFields(doc.entries)
     /\ \A i \in 1..Len(doc.entries) :
            Len(doc.entries[i].path) > 1 => doc.entries[i].value.v # "cat")
    => /\ err = NoErr
       /\ parsed = EntriesTree(NestedFields(doc.entries), EmptyObjectTree)

(***************************************************************************)
(* Documents that append with +=: up to MaxEntries entries out of          *)
(*   a += 1    a += 2    a: [5]    a: x    b += 1                          *)
(*   a.b += 1    a.b += 2    a.b: [5]                                      *)
(***************************************************************************)
AppendEntries ==
    { Field(<<"a">>, "+=", VInt(1)),
      Field(<<"a">>, "+=", VInt(2)),
      Field(<<"a">>, ":", VArr(<<VInt(5)>>)),
      Field(<<"a">>, ":", VStr("x")),
      Field(<<"b">>, "+=", VInt(1)),
      Field(<<"a", "b">>, "+=", VInt(1)),
      Field(<<"a", "b">>, "+=", VInt(2)),
      Field(<<"a", "b">>, ":", VArr(<<VInt(5)>>)) }

AppendDocuments == { Document(s) : s \in SeqsUpTo(AppendEntries, MaxEntries) }

InitAppend == InitWith(Seeded \cup AppendDocuments, {EmptyEnv})

SpecAppend == InitAppend /\ [][Next]_vars

\* the call has ended as the reading of the entries says: with its tree, or
\* with its error
AsRead(entries) ==
    IF EntriesTree(entries, EmptyObjectTree).t = "error"
    THEN err = EntriesTree(entries, EmptyObjectTree).e
    ELSE err = NoErr /\ parsed = EntriesTree(entries, EmptyObjectTree)

(***************************************************************************)
(* C5.  key += v, key a simple key or a path expression, appends to the    *)
(* array at that key: an absent key becomes [v], an Array xs becomes xs    *)
(* followed by v, and on any other value parsing fails with the            *)
(* invalidValue error "value of the key ... is not an array"; so n entries *)
(* += on a fresh key leave [v1, ..., vn].                                  *)
(***************************************************************************)
AppendsToArray ==
    (pc # "start" /\ doc.kind = "object" /\ PlainFields(doc.entries)) => AsRead(doc.entries)

\* the part of it that the parser does fulfil: += on simple keys
AppendsToArrayAtSimpleKeys ==
    (/\ pc # "start" /\ doc.kind = "object" /\ PlainFields(doc.entries)
     /\ \A i \in 1..Len(doc.entries) :
            doc.entries[i].sep = "+=" => Len(doc.entries[i].path) = 1)
    => AsRead(doc.entries)

(***************************************************************************)
(* mergeObjects on its own: the two operands are objects over the keys a   *)
(* and b whose values are 1, {}, {x: 1}, {x: {p: 1}} or {x: {q: 2}, y: 2}, *)
(* stored one after the other, no map being shared.                        *)
(***************************************************************************)
ObjectTree(fields) == [t |-> "Object", fields |-> fields]

MergeValues ==
    { IntVal(1),
      EmptyObjectTree,
      ObjectTree("x" :> IntVal(1)),
      ObjectTree("x" :> ObjectTree("p" :> IntVal(1))),
      ObjectTree("x" :> ObjectTree("q" :> IntVal(2)) @@ "y" :> IntVal(2)) }

MergeOperands ==
    { ObjectTree(f) : f \in UNION { [K -> MergeValues] : K \in SUBSET {"a", "b"} } }

\* the memory h with the value of the tree stored in new cells, and that value
RECURSIVE Store(_, _)
RECURSIVE StoreFields(_, _, _, _)
Store(h, tree) ==
    IF tree.t # "Object" THEN [h |-> h, v |-> tree]
    ELSE StoreFields(Alloc(h, MapCell(EmptyMap)), NewRef(h), tree.fields,
                     RangeKeys(DOMAIN tree.fields, FALSE))

StoreFields(h, ref, fields, keys) ==
    IF keys = <<>> THEN [h |-> h, v |-> Object(ref)]
    ELSE LET s == Store(h, fields[Head(keys)])
         IN StoreFields(MapSet(s.h, ref, Head(keys), s.v), ref, fields, Tail(keys))

\* whether the operand can hold one map at both its keys, as an object does
\* whose two substitutions have been resolved to the same object
Shareable(tree) ==
    /\ DOMAIN tree.fields = {"a", "b"}
    /\ tree.fields["a"].t = "Object"
    /\ tree.fields["a"] = tree.fields["b"]

\* the operand stored with the map of its key a at its key b as well
Shared(s) == [s EXCEPT !.h = MapSet(@, s.v.ref, "b", @[s.v.ref].m["a"])]

StoredExisting(d) ==
    IF d.shared THEN Shared(Store(<<>>, d.existing)) ELSE Store(<<>>, d.existing)

InitMerge ==
    /\ doc \in { [kind |-> "merge", existing |-> e, new |-> n, shared |-> s] :
                    e \in MergeOperands, n \in MergeOperands, s \in BOOLEAN }
    /\ doc.shared => Shareable(doc.existing)
    /\ heap = Store(StoredExisting(doc).h, doc.new).h
    /\ root = StoredExisting(doc).v
    /\ step = [kind |-> "merge", new |-> Store(StoredExisting(doc).h, doc.new).v]
    /\ pc = "merge"
    /\ input = <<>>
    /\ env = EmptyEnv
    /\ fs = Files
    /\ stack = <<>>
    /\ err = NoErr
    /\ parsed = Nil
    /\ files = [opened |-> 0, closed |-> 0]

\* mergeObjects(existing, new), the keys of a map ranged over in either order
Merge ==
    /\ pc = "merge"
    /\ \E rev \in BOOLEAN : heap' = mergeObjects(heap, root.ref, step.new.ref, rev)
    /\ pc' = "merged"
    /\ UNCHANGED <<input, env, fs, root, stack, err, parsed, step, files, doc>>

SpecMerge == InitMerge /\ [][Merge]_vars

\* what the claim says of the merge of the two operands
RightBiased(before, new, after) ==
    /\ DOMAIN after = DOMAIN before \cup DOMAIN new
    /\ \A k \in DOMAIN new :
         after[k] = IF k \in DOMAIN before /\ before[k].t = "Object" /\ new[k].t = "Object"
                    THEN MergedTree(before[k], new[k])
                    ELSE new[k]
    /\ \A k \in DOMAIN before \ DOMAIN new : after[k] = before[k]

(***************************************************************************)
(* C6.  mergeObjects(existing, new) is a recursive merge in which new      *)
(* wins: afterwards existing[k], for every key k of new, is the recursive  *)
(* merge of the two values when both were Objects and is new[k] otherwise; *)
(* a key of existing that new has not keeps its value; existing has no     *)
(* other key.                                                              *)
(***************************************************************************)
RightBiasedMerge ==
    pc = "merged"
    => RightBiased(doc.existing.fields, doc.new.fields, TreeOf(heap, root).fields)

\* the same of operands no map of which is held twice
RightBiasedMergeOfTrees ==
    pc = "merged" /\ ~doc.shared
    => RightBiased(doc.existing.fields, doc.new.fields, TreeOf(heap, root).fields)

\* a and a.x were Objects on both sides and have been merged, b was a key of
\* existing alone
RightBiasedMergeWitness ==
    /\ pc = "merged"
    /\ ~doc.shared
    /\ DOMAIN doc.existing.fields = {"a", "b"}
    /\ DOMAIN doc.new.fields = {"a"}
    /\ doc.existing.fields["a"] = ObjectTree("x" :> ObjectTree("p" :> IntVal(1)))
    /\ doc.new.fields["a"] = ObjectTree("x" :> ObjectTree("q" :> IntVal(2)) @@ "y" :> IntVal(2))
    /\ TreeOf(heap, root).fields["a"]
         = ObjectTree("x" :> ObjectTree("p" :> IntVal(1) @@ "q" :> IntVal(2)) @@ "y" :> IntVal(2))

(***************************************************************************)
(* Documents with include directives, one entry per line: up to MaxEntries *)
(* entries out of                                                          *)
(*   a: 1    a { y: 3 }    b: 7    include "a.conf"                        *)
(*   include required("a.conf")    include "missing"    include "locked"   *)
(*   include required("missing")    include required("locked")             *)
(* a.conf holds  a { x: 1 }, b: 2 ; no file is called missing; locked is   *)
(* there and cannot be opened.                                             *)
(***************************************************************************)
IncludeEntries ==
    { Field(<<"a">>, ":", VInt(1)),
      Field(<<"a">>, "{", VObj(<<Field(<<"y">>, ":", VInt(3))>>)),
      Field(<<"b">>, ":", VInt(7)),
      Include("a.conf"),
      IncludeRequired("a.conf"),
      Include("missing"),
      Include("locked"),
      IncludeRequired("missing"),
      IncludeRequired("locked") }

IncludeDocuments == { ByLine(s) : s \in SeqsUpTo(IncludeEntries, MaxEntries) }

InitInclude == InitWith(Seeded \cup IncludeDocuments, {EmptyEnv})

SpecInclude == InitInclude /\ [][Next]_vars

\* the call has ended as the reading of the entries says, with its tree or
\* with its error
AsIncluded(entries, recovered) ==
    IF IncludingTree(entries, EmptyObjectTree, recovered).t = "error"
    THEN err = IncludingTree(entries, EmptyObjectTree, recovered).e
    ELSE err = NoErr /\ parsed = IncludingTree(entries, EmptyObjectTree, recovered)

(***************************************************************************)
(* C7.  An include directive merges the root object of the included file   *)
(* into the object being parsed, at the place of the directive: what the   *)
(* object holds after the directive is mergeObjects(what it held before,   *)
(* the included object), and the entries after the directive are applied   *)
(* on top by the rules for duplicate keys.                                 *)
(***************************************************************************)
IncludeMerges ==
    (/\ pc # "start" /\ doc.kind = "lines"
     /\ \A i \in 1..Len(doc.entries) :
            doc.entries[i].e = "include" => doc.entries[i].file = "a.conf")
    => /\ err = NoErr
       /\ parsed = IncludingTree(doc.entries, EmptyObjectTree, {})

\* the part of it that the parser does fulfil: directives that no other
\* directive follows on the next line
IncludeMergesBeforeFields ==
    (/\ pc # "start" /\ doc.kind = "lines"
     /\ \A i \in 1..Len(doc.entries) :
            doc.entries[i].e = "include"
            => /\ doc.entries[i].file = "a.conf"
               /\ (i < Len(doc.entries) => doc.entries[i + 1].e = "field"))
    => /\ err = NoErr
       /\ parsed = IncludingTree(doc.entries, EmptyObjectTree, {})

\* a: 1, then include "a.conf", then a { y: 3 } has given a: { x: 1, y: 3 }, b: 2
IncludeMergesWitness ==
    /\ pc = "done"
    /\ doc = ByLine(<< Field(<<"a">>, ":", VInt(1)), Include("a.conf"),
                       Field(<<"a">>, "{", VObj(<<Field(<<"y">>, ":", VInt(3))>>)) >>)
    /\ parsed = ObjectTree("a" :> ObjectTree("x" :> IntVal(1) @@ "y" :> IntVal(3))
                           @@ "b" :> IntVal(2))

\* no include directive of the entries comes directly after another one
NoAdjacentIncludes(entries) ==
    \A i \in 1..(Len(entries) - 1) : entries[i].e = "field" \/ entries[i + 1].e = "field"

InsertionEntries ==
    { Field(<<"a">>, ":", VSub(<<"x">>)),
      Field(<<"a">>, "=", VOptSub(<<"y">>)),
      Field(<<"a">>, ":", VInt(1)),
      Field(<<"a">>, ":", VObj(<<Field(<<"p">>, ":", VInt(1))>>)),
      Field(<<"a">>, "{", VObj(<<Field(<<"q">>, ":", VInt(2))>>)),
      Field(<<"a">>, "=", VArr(<<VInt(1)>>)) }

InsertionDocuments == { Document(s) : s \in SeqsUpTo(InsertionEntries, MaxEntries) }

InitInsertion == InitWith(Seeded \cup InsertionDocuments, {EmptyEnv})

SpecInsertion == InitInsertion /\ [][Next]_vars

\* the document is one of those above
Insertions(d) == d.kind = "object" /\ SimpleKeys(d.entries) /\ ~PlainFields(d.entries)

(***************************************************************************)
(* C9.  Insertion at a key that holds a value already, with "=", ":" or    *)
(* the "{" form: a Substitution onto an Object or a Substitution, and an   *)
(* Object onto a Substitution, give Concatenation[existing, new]; a        *)
(* Substitution onto any other value gives ValueWithAlternative{existing,  *)
(* new}.  So the tree the parser builds is the one obtained by reading the *)
(* entries from left to right with these rules and those of C3.            *)
(***************************************************************************)
SubstitutionInsertions ==
    (pc # "start" /\ Insertions(doc))
    => parsed = EntriesTree(doc.entries, EmptyObjectTree)

\* the value the key of entry i holds when the entries before it have been read
HeldBefore(entries, i) ==
    LET before == EntriesTree(SubSeq(entries, 1, i - 1), EmptyObjectTree).fields
    IN IF entries[i].path[1] \in DOMAIN before THEN before[entries[i].path[1]] ELSE Nil

\* the part of it that the parser does fulfil: no "{" form at a key that
\* holds a Substitution
SubstitutionInsertionsBySeparator ==
    (/\ pc # "start" /\ Insertions(doc)
     /\ \A i \in 1..Len(doc.entries) :
            doc.entries[i].sep = "{" => HeldBefore(doc.entries, i).t # "Substitution")
    => parsed = EntriesTree(doc.entries, EmptyObjectTree)

(***************************************************************************)
(* Documents with concatenations of objects: a { x: 1 }, b { x: 2, y: 2 }  *)
(* followed by up to MaxEntries entries out of                             *)
(*   c: ${a}    c: ${b}    c: { z: 3 }    c: ${a} ${b}                     *)
(*   n { c: ${a}, c: ${b} }                                                *)
(***************************************************************************)
ReductionOperands ==
    << Field(<<"a">>, "{", VObj(<<Field(<<"x">>, ":", VInt(1))>>)),
       Field(<<"b">>, "{", VObj(<<Field(<<"x">>, ":", VInt(2)), Field(<<"y">>, ":", VInt(2))>>)) >>

ReductionEntries ==
    { Field(<<"c">>, ":", VSub(<<"a">>)),
      Field(<<"c">>, ":", VSub(<<"b">>)),
      Field(<<"c">>, ":", VObj(<<Field(<<"z">>, ":", VInt(3))>>)),
      Field(<<"c">>, ":", VCat(<<VSub(<<"a">>), VSub(<<"b">>)>>)),
      Field(<<"n">>, "{", VObj(<<Field(<<"c">>, ":", VSub(<<"a">>)),
                                 Field(<<"c">>, ":", VSub(<<"b">>))>>)) }

ReductionDocuments ==
    { Document(ReductionOperands \o s) : s \in SeqsUpTo(ReductionEntries, MaxEntries) }

\* the document is one of those above
Reductions(d) ==
    d.kind = "object" /\ Len(d.entries) > 2 /\ SubSeq(d.entries, 1, 2) = ReductionOperands

InitReduction == InitWith(Seeded \cup ReductionDocuments, {EmptyEnv})

SpecReduction == InitReduction /\ [][Next]_vars

\* the object of tree at the path, a list of keys
RECURSIVE At(_, _)
At(tree, path) == IF path = <<>> THEN tree ELSE At(tree.fields[Head(path)], Tail(path))

\* the paths of the objects of tree, itself included
RECURSIVE ObjectPaths(_)
ObjectPaths(tree) ==
    {<<>>} \cup UNION { { <<k>> \o q : q \in ObjectPaths(tree.fields[k]) } :
                          k \in { j \in DOMAIN tree.fields : tree.fields[j].t = "Object" } }

\* the value an element of a concatenation stands for: the one its path has
\* in the parsed tree when it is a substitution
ElementOf(tree, v) == IF v.t = "Substitution" THEN tree.fields[v.path[1]] ELSE v

\* the merge of the objects of the list, from left to right
RECURSIVE MergedAll(_, _)
MergedAll(tree, elems) ==
    IF elems = <<>> THEN tree ELSE MergedAll(MergedTree(tree, Head(elems)), Tail(elems))

\* the keys of the object at path that hold a concatenation with an object in it
ObjectConcatenations(tree, path) ==
    { k \in DOMAIN At(tree, path).fields :
        /\ At(tree, path).fields[k].t = "concatenation"
        /\ \E i \in DOMAIN At(tree, path).fields[k].elems :
              ElementOf(tree, At(tree, path).fields[k].elems[i]).t = "Object" }

\* what the claim says of the key k of the object at path
Reduced(path, k) ==
    LET elems == [i \in DOMAIN At(parsed, path).fields[k].elems |->
                    ElementOf(parsed, At(parsed, path).fields[k].elems[i])]
    IN  \/ err = invalidConcatenationError
        \/ /\ err = NoErr
           /\ \A i \in DOMAIN elems : elems[i].t = "Object"
           /\ At(TreeOf(heap, root), path).fields[k] = MergedAll(EmptyObjectTree, elems)

(***************************************************************************)
(* C10.  Reduction of concatenations of objects: after resolution, for     *)
(* every object at any depth and every key of it whose value was a         *)
(* Concatenation with an Object among its elements, either all elements    *)
(* are Objects and that key of that object holds their merge from left to  *)
(* right, later elements winning, or resolution has failed with            *)
(* invalidConcatenation.                                                   *)
(***************************************************************************)
ObjectConcatenationsReduced ==
    (pc = "done" /\ Reductions(doc) /\ parsed # Nil)
    => \A path \in ObjectPaths(parsed) :
          \A k \in ObjectConcatenations(parsed, path) : Reduced(path, k)

\* the part of it that the resolver does fulfil: the keys of the root object,
\* when no object below it holds such a concatenation
RootConcatenationsReduced ==
    (/\ pc = "done" /\ Reductions(doc) /\ parsed # Nil
     /\ \A path \in ObjectPaths(parsed) \ {<<>>} : ObjectConcatenations(parsed, path) = {})
    => \A k \in ObjectConcatenations(parsed, <<>>) : Reduced(<<>>, k)

(***************************************************************************)
(* Documents in which a key that holds a value is given a substitution: up *)
(* to MaxEntries entries out of                                            *)
(*   b: 1    b: ${a}    b: ${?u}    b: ${u}    b: ${e}    a: 2             *)
(* a and e are set in one of the environments; u is set in none.           *)
(***************************************************************************)
AlternativeEntries ==
    { Field(<<"b">>, ":", VInt(1)),
      Field(<<"b">>, ":", VSub(<<"a">>)),
      Field(<<"b">>, ":", VOptSub(<<"u">>)),
      Field(<<"b">>, ":", VSub(<<"u">>)),
      Field(<<"b">>, ":", VSub(<<"e">>)),
      Field(<<"a">>, ":", VInt(2)) }

AlternativeDocuments == { Document(s) : s \in SeqsUpTo(AlternativeEntries, MaxEntries) }

InitAlternative == InitWith(Seeded \cup AlternativeDocuments, {EmptyEnv, SomeEnv})

SpecAlternative == InitAlternative /\ [][Next]_vars

\* the step about to be taken visits a slot that holds a valueWithAlternative
VisitsAlternative ==
    pc = "resolve" /\ step'.kind \in {"set", "error"} /\ step'.old.t = "valueWithAlternative"

RequiredAlternativeFails ==
    [][ (/\ VisitsAlternative
         /\ ~step'.old.alternative.optional
         /\ ~find(heap, root.ref, step'.old.alternative.path).panic
         /\ find(heap, root.ref, step'.old.alternative.path).v = Nil
         /\ step'.old.alternative.path \notin DOMAIN env)
        => /\ step'.kind = "error"
           /\ pc' = "done"
           /\ err' = <<"could not resolve substitution", "${">>
                        \o step'.old.alternative.path \o <<"} to a value">>
      ]_vars

\* b: 1, b: ${u}: resolution has failed at b, which held 1 with the alternative ${u}
RequiredAlternativeFailsWitness ==
    /\ pc = "done"
    /\ step.kind = "error"
    /\ step.old.t = "valueWithAlternative"
    /\ step.old.value = IntVal(1)
    /\ err = <<"could not resolve substitution", "${", "u", "} to a value">>

(***************************************************************************)
(* The accessors of a Config (src/config.go).  A text is a sequence of     *)
(* pieces; the result of a call is [panic, v], panic saying that the call  *)
(* ended in a run-time panic.                                              *)
(***************************************************************************)
\* the texts of the model made of letters alone: String.String (lines
\* 289-299) puts every other text between double quotes
LetterWords == {"x", "y", "z", "s"}

NoPanic(v) == [panic |-> FALSE, v |-> v]

Panicked == [panic |-> TRUE, v |-> <<>>]

\* the results of the list, joined by sep; a panic if one of them is one
RECURSIVE JoinResults(_, _)
JoinResults(results, sep) ==
    IF results = <<>> THEN NoPanic(<<>>)
    ELSE IF Head(results).panic \/ JoinResults(Tail(results), sep).panic THEN Panicked
    ELSE NoPanic(Head(results).v
                 \o (IF Len(results) > 1 THEN sep ELSE <<>>)
                 \o JoinResults(Tail(results), sep).v)

\* Value.String(): lines 289-299 (String), 311-313, 325-347 (Object, the
\* keys in the order of KeyUniverse), 396-414 (Array), 421, 456, 470-483,
\* 492, 500, 516-524 (concatenation); a method call on the nil interface
\* value panics
RECURSIVE ValueString(_, _)
ValueString(h, v) ==
    CASE v.t = "nil" -> Panicked
      [] v.t = "Int" -> NoPanic(<<ToString(v.n)>>)
      [] v.t = "Float64" -> NoPanic(<<"FormatFloat", v.f>>)
      [] v.t = "Boolean" -> NoPanic(<<IF v.b THEN "true" ELSE "false">>)
      [] v.t = "Null" -> NoPanic(<<"null">>)
      [] v.t = "Duration" -> NoPanic(<<"Duration.String", v.ns>>)
      [] v.t = "String" ->
            IF v.str = <<>> THEN NoPanic(<<"\"\"">>)
            ELSE IF \E i \in DOMAIN v.str : v.str[i] \notin LetterWords
            THEN NoPanic(<<"\"">> \o v.str \o <<"\"">>)
            ELSE NoPanic(v.str)
      [] v.t = "Substitution" ->
            NoPanic(<<"${">> \o (IF v.optional THEN <<"?">> ELSE <<>>) \o v.path \o <<"}">>)
      [] v.t = "valueWithAlternative" ->
            JoinResults(<<NoPanic(<<"(">>), ValueString(h, v.value), NoPanic(<<" | ">>),
                          ValueString(h, v.alternative), NoPanic(<<")">>)>>, <<>>)
      [] v.t = "Array" ->
            IF SliceOf(h, v.ref) = <<>> THEN NoPanic(<<"[]">>)
            ELSE JoinResults(<<NoPanic(<<"[">>),
                               JoinResults([i \in DOMAIN SliceOf(h, v.ref) |->
                                              ValueString(h, SliceOf(h, v.ref)[i])], <<",">>),
                               NoPanic(<<"]">>)>>, <<>>)
      [] v.t = "concatenation" ->
            JoinResults([i \in DOMAIN SliceOf(h, v.ref) |->
                           ValueString(h, SliceOf(h, v.ref)[i])], <<>>)
      [] v.t = "Object" ->
            JoinResults(<<NoPanic(<<"{">>),
                          JoinResults([i \in 1..Len(RangeKeys(DOMAIN MapOf(h, v.ref), FALSE)) |->
                              JoinResults(<<NoPanic(<<RangeKeys(DOMAIN MapOf(h, v.ref), FALSE)[i], ":">>),
                                            ValueString(h, MapOf(h, v.ref)[
                                                RangeKeys(DOMAIN MapOf(h, v.ref), FALSE)[i]])>>,
                                          <<>>)], <<", ">>),
                          NoPanic(<<"}">>)>>, <<>>)

\* a Get without the test of the type of the root: c.root.(Object).find(path)
ConfigGetOfObject(h, c, path) ==
    IF c.t # "Object" THEN Panicked
    ELSE IF find(h, c.ref, path).panic THEN Panicked
    ELSE NoPanic(find(h, c.ref, path).v)

\* Config.Get (lines 251-257)
ConfigGet(h, c, path) ==
    IF c.t # "Object" THEN NoPanic(Nil)
    ELSE IF find(h, c.ref, path).panic THEN Panicked
    ELSE NoPanic(find(h, c.ref, path).v)

\* Config.GetString (lines 132-139)
ConfigGetString(h, c, path) ==
    IF ConfigGet(h, c, path).panic THEN Panicked
    ELSE IF ConfigGet(h, c, path).v = Nil THEN NoPanic(<<>>)
    ELSE ValueString(h, ConfigGet(h, c, path).v)

\* Config.GetStringSlice (lines 114-128): value.(Array) panics on any other value
ConfigGetStringSlice(h, c, path) ==
    IF ConfigGet(h, c, path).panic THEN Panicked
    ELSE IF ConfigGet(h, c, path).v = Nil THEN NoPanic(Nil)
    ELSE IF ConfigGet(h, c, path).v.t # "Array" THEN Panicked
    ELSE LET arr == SliceOf(h, ConfigGet(h, c, path).v.ref)
         IN IF \E i \in DOMAIN arr : ValueString(h, arr[i]).panic THEN Panicked
            ELSE NoPanic([i \in DOMAIN arr |-> ValueString(h, arr[i]).v])

\* the paths the accessors are called with
AccessPaths ==
    { <<"a">>, <<"c">>, <<"d">>, <<"a", ".", "x">>, <<"a", ".", "q">>, <<"n", ".", "x">> }

\* a call of an accessor on the Config a successful parse has returned
Got(accessor, path, result) ==
    /\ pc = "done"
    /\ err = NoErr
    /\ step' = [kind |-> "get", accessor |-> accessor, path |-> path, result |-> result]
    /\ pc' = "got"
    /\ UNCHANGED <<input, env, fs, heap, root, stack, err, parsed, files, doc>>

GetString == \E path \in AccessPaths : Got("GetString", path, ConfigGetString(heap, root, path))

GetStringSlice ==
    \E path \in AccessPaths : Got("GetStringSlice", path, ConfigGetStringSlice(heap, root, path))

NextGet ==
    \/ Parse
    \/ ResolveObjectEntry
    \/ ResolveSliceElement
    \/ ResolveReturn
    \/ GetString
    \/ GetStringSlice

(***************************************************************************)
(* Documents with optional substitutions that nothing resolves: up to      *)
(* MaxEntries entries out of                                               *)
(*   a: 1    c: ${?u}    c: ${?a}    d: [${?u}]    d: [1, ${?u}]           *)
(* u is set in none of the environments.                                   *)
(***************************************************************************)
OptionalEntries ==
    { Field(<<"a">>, ":", VInt(1)),
      Field(<<"c">>, ":", VOptSub(<<"u">>)),
      Field(<<"c">>, ":", VOptSub(<<"a">>)),
      Field(<<"d">>, ":", VArr(<<VOptSub(<<"u">>)>>)),
      Field(<<"d">>, ":", VArr(<<VInt(1), VOptSub(<<"u">>)>>)) }

OptionalDocuments == { Document(s) : s \in SeqsUpTo(OptionalEntries, MaxEntries) }

InitOptional == InitWith(Seeded \cup OptionalDocuments, {EmptyEnv, SomeEnv})

SpecOptional == InitOptional /\ [][NextGet]_vars

\* every optional substitution ${?u} of the tree before is in the tree after
RECURSIVE OptionalsKept(_, _)
OptionalsKept(before, after) ==
    CASE before.t = "Substitution" ->
            (before.optional /\ before.path = <<"u">>) => after = before
      [] before.t = "Object" ->
            /\ after.t = "Object"
            /\ \A k \in DOMAIN before.fields :
                  k \in DOMAIN after.fields /\ OptionalsKept(before.fields[k], after.fields[k])
      [] before.t \in {"Array", "concatenation"} ->
            /\ after.t = before.t
            /\ DOMAIN after.elems = DOMAIN before.elems
            /\ \A i \in DOMAIN before.elems : OptionalsKept(before.elems[i], after.elems[i])
      [] OTHER -> TRUE

(***************************************************************************)
(* C13.  An optional substitution ${?p} that resolves neither in the tree  *)
(* nor in the environment is left in place: after resolution the array     *)
(* element or object entry still holds the Substitution with its optional  *)
(* flag, and GetString on the key and GetStringSlice on the array that     *)
(* holds it return without a panic.                                        *)
(***************************************************************************)
OptionalLeftInPlace ==
    (pc \in {"done", "got"} /\ err = NoErr /\ doc \in OptionalDocuments)
    => /\ OptionalsKept(parsed, TreeOf(heap, root))
       /\ (/\ step.kind = "get"
           /\ \/ step.accessor = "GetString"
              \/ step.path[1] \in DOMAIN parsed.fields /\ parsed.fields[step.path[1]].t = "Array")
          => ~step.result.panic

\* GetString alone, on a key that held a substitution: it returns, the
\* empty text when the substitution was ${?u}
GetStringOfSubstitution ==
    (/\ pc = "got" /\ doc \in OptionalDocuments
     /\ step.accessor = "GetString"
     /\ Len(step.path) = 1
     /\ step.path[1] \in DOMAIN parsed.fields
     /\ parsed.fields[step.path[1]].t = "Substitution")
    => /\ ~step.result.panic
       /\ parsed.fields[step.path[1]].path = <<"u">> => step.result.v = <<>>

(***************************************************************************)
(* Documents with optional substitutions that nothing resolves next to     *)
(* objects and to substitutions of their key: d { x: 1 } followed by up to *)
(* MaxEntries entries out of                                               *)
(*   a: ${?u}    b: ${a}    c: ${d}    c: ${?u}    z: ${d}                 *)
(* Two entries of the key c make a concatenation of their values.          *)
(***************************************************************************)
SafetyOperand == << Field(<<"d">>, "{", VObj(<<Field(<<"x">>, ":", VInt(1))>>)) >>

SafetyEntries ==
    { Field(<<"a">>, ":", VOptSub(<<"u">>)),
      Field(<<"b">>, ":", VSub(<<"a">>)),
      Field(<<"c">>, ":", VSub(<<"d">>)),
      Field(<<"c">>, ":", VOptSub(<<"u">>)),
      Field(<<"z">>, ":", VSub(<<"d">>)) }

SafetyDocuments == { Document(SafetyOperand \o s) : s \in SeqsUpTo(SafetyEntries, MaxEntries) }

InitSafety == InitWith(Seeded \cup SafetyDocuments, {EmptyEnv, SomeEnv})

SpecSafety == InitSafety /\ [][Next]_vars

\* the entries of the document other than those whose value is ${?u}
WithoutOptionals(entries) == SelectSeq(entries, LAMBDA x : x.value # VOptSub(<<"u">>))

\* the keys of the entries
KeysOf(entries) == { entries[i].path[1] : i \in DOMAIN entries }

\* the outcome of the call is that of the document without the entries that
\* hold ${?u}: the error of b: ${a} when a is not in the environment, and
\* otherwise the object {x: 1} at d and at every key given ${d}
AsWithoutOptionals(entries) ==
    IF "b" \in KeysOf(WithoutOptionals(entries)) /\ <<"a">> \notin DOMAIN env
    THEN pc = "done" /\ err = couldNotResolve(Substitution(<<"a">>, FALSE))
    ELSE /\ pc = "done"
         /\ err = NoErr
         /\ \A k \in KeysOf(WithoutOptionals(entries)) \ {"b"} :
               /\ k \in DOMAIN TreeOf(heap, root).fields
               /\ TreeOf(heap, root).fields[k] = ObjectTree([x \in {"x"} |-> IntVal(1)])

(***************************************************************************)
(* C14.  An optional substitution whose path is found neither in the tree  *)
(* nor in the environment never makes resolution fail or fault, and the    *)
(* outcome for the rest of the tree is that of the tree without its slot,  *)
(* also when it is an element of a Concatenation with Objects and when     *)
(* another substitution refers to the key that holds it.                   *)
(***************************************************************************)
OptionalsAreSafe ==
    (pc \notin {"start", "resolve"} /\ doc \in SafetyDocuments)
    => AsWithoutOptionals(doc.entries)

\* the part of it the resolver fulfils: an optional substitution that is the
\* only value given to its key, with no substitution of that key
LoneOptionalsAreSafe ==
    (/\ pc \notin {"start", "resolve"} /\ doc \in SafetyDocuments
     /\ "b" \notin KeysOf(doc.entries)
     /\ \A i \in DOMAIN doc.entries : \A j \in DOMAIN doc.entries :
           (i # j /\ doc.entries[i].path = doc.entries[j].path)
           => doc.entries[i].value # VOptSub(<<"u">>))
    => AsWithoutOptionals(doc.entries)

(***************************************************************************)
(* Documents with a value concatenation: the entry                         *)
(*   a: v1 w1 v2 [w2 v3]                                                   *)
(* on one line, v1 out of  s  true  null  ${b}  "q",  the following        *)
(* values out of  y  ${b}  "q",  every w a run of tabs and spaces (empty   *)
(* where two tokens can touch); the entry ends the text, or is followed by *)
(* ", b: 2" or by "b: 2" on the next line.                                 *)
(***************************************************************************)
\* a value as written and as the tree it stands for
Piece(text, value) == [text |-> text, value |-> value]

FirstPieces ==
    { Piece(<<Id("s")>>, String(<<"s">>)),
      Piece(<<Id("true")>>, Boolean(TRUE)),
      Piece(<<Id("null")>>, null),
      Piece(Sub(<<Id("b")>>), Substitution(<<"b">>, FALSE)),
      Piece(<<Str("q")>>, String(<<"q">>)) }

NextPieces ==
    { Piece(<<Id("y")>>, String(<<"y">>)),
      Piece(Sub(<<Id("b")>>), Substitution(<<"b">>, FALSE)),
      Piece(<<Str("q")>>, String(<<"q">>)) }

Whitespaces == { <<>>, <<" ">>, <<"\t">>, <<" ", "\t">> }

\* one more value of the line: the white space before it and the value
Continuations == { [w |-> w, piece |-> q] : w \in Whitespaces, q \in NextPieces }

MaxValues == 3

Trailers == { "", ",", "\n" }

\* two identifiers need white space between them
Separated(pieces, ws) ==
    \A i \in DOMAIN ws :
        ws[i] = <<>> => \/ pieces[i].text[Len(pieces[i].text)].rune # "Ident"
                        \/ pieces[i + 1].text[1].rune # "Ident"

\* text followed by the characters of the white space w
RECURSIVE Spaced(_, _)
Spaced(text, w) == IF w = <<>> THEN text ELSE Spaced(Then1(text, Head(w)), Tail(w))

LineText(pieces, ws) ==
    Join([i \in DOMAIN pieces |->
            IF i < Len(pieces) THEN Spaced(pieces[i].text, ws[i]) ELSE pieces[i].text], <<>>)

ConcatenationText(pieces, ws, trailer) ==
    <<Id("a"), Sp(Ch(":"))>>
    \o CASE trailer = "" -> LineText(pieces, ws)
         [] trailer = "," -> LineText(pieces, ws) \o <<Sp(Ch(",")), Id("b"), Sp(Ch(":")), Num(2)>>
         [] trailer = "\n" -> Then1(LineText(pieces, ws), "\n") \o <<Id("b"), Sp(Ch(":")), Num(2)>>

ConcatenationDocument(pieces, ws, trailer) ==
    [kind |-> "text", text |-> ConcatenationText(pieces, ws, trailer),
     pieces |-> pieces, ws |-> ws, trailer |-> trailer]

ConcatenationDocuments ==
    { ConcatenationDocument(<<first>> \o [i \in DOMAIN c |-> c[i].piece],
                            [i \in DOMAIN c |-> c[i].w], trailer) :
        first \in FirstPieces, c \in SeqsUpTo(Continuations, MaxValues - 1),
        trailer \in Trailers }

ConcatenationLines ==
    { d \in ConcatenationDocuments : Separated(d.pieces, d.ws) }

InitConcatenation == InitWith(Seeded \cup ConcatenationLines, {EmptyEnv})

SpecConcatenation == InitConcatenation /\ [][Next]_vars

IsConcatenationLine == "pieces" \in DOMAIN doc

\* [v1, w1, v2, ..., vn]
Interleaved(pieces, ws) ==
    [t |-> "concatenation",
     elems |-> [i \in 1..(2 * Len(pieces) - 1) |->
                  IF i % 2 = 1 THEN pieces[(i + 1) \div 2].value ELSE String(ws[i \div 2])]]

RootValues ==
    { [array |-> FALSE, text |-> <<Sp(Ch("{")), Id("a"), Sp(Ch(":")), Sp(Num(1)), Ch("}")>>],
      [array |-> FALSE, text |-> <<Ch("{"), Ch("}")>>],
      [array |-> TRUE, text |-> <<Ch("["), Num(1), Ch("]")>>],
      [array |-> TRUE, text |-> <<Ch("["), Ch("]")>>],
      [array |-> TRUE, text |-> <<Ch("["), Num(1), Sp(Ch(",")), Num(2), Ch("]")>>] }

StrayTokens == { Id("x"), Num(2), Str("q"), Ch("}"), Ch("]"), Ch(","), Ch("[") }

StrayDocuments ==
    { [kind |-> "text", text |-> Spaced(r.text, w) \o <<s>>, array |-> r.array, stray |-> s] :
        r \in RootValues, s \in StrayTokens, w \in { <<>>, <<" ">>, <<"\n">> } }

InitStray == InitWith(Seeded \cup StrayDocuments, {EmptyEnv})

SpecStray == InitStray /\ [][Next]_vars

HasStray == "stray" \in DOMAIN doc

\* the call has failed, returning no Config, with an error that names the token
FailsNaming(token) ==
    /\ pc = "done"
    /\ root = Nil
    /\ err # NoErr
    /\ \E i \in DOMAIN err : err[i] = token.body

(***************************************************************************)
(* C16.  parse requires the end of the input after the top-level value:    *)
(* for an object root and for an array root, when a token remains after    *)
(* the root value, parse fails with an error that names the token and      *)
(* returns no Config.                                                      *)
(***************************************************************************)
EndOfInputRequired == (pc # "start" /\ HasStray) => FailsNaming(doc.stray)

\* the same for the object roots alone
EndOfInputRequiredAfterObject ==
    (pc # "start" /\ HasStray /\ ~doc.array) => FailsNaming(doc.stray)

\* an array root is returned whatever follows it
ArrayRootReturned ==
    (pc # "start" /\ HasStray /\ doc.array) => pc = "done" /\ err = NoErr /\ root.t = "Array"

(***************************************************************************)
(* Documents with a missing separator: in an object (the root, with or     *)
(* without braces) the entry a: v, in an array the element v, followed on  *)
(* the line where v ends by a token that is neither a comma nor the        *)
(* closing bracket.  v is one of                                           *)
(*   1        [1,         { x: 1                                           *)
(*             2]          }                                               *)
(* and what follows is  b  or  b: 2  in an object,  3  or  3]  in an       *)
(* array (b and 3 being then the last token of the input, but for the      *)
(* closing brace of a root with braces).                                   *)
(***************************************************************************)
ElementValues ==
    { [lines |-> 1, text |-> <<Num(1)>>],
      [lines |-> 2, text |-> <<Ch("["), Nl(Ch(",")), Num(2), Ch("]")>>],
      [lines |-> 2, text |-> <<Sp(Ch("{")), Id("x"), Sp(Ch(":")), Nl(Num(1)), Ch("}")>>] }

SeparatorLine(container, braces, value, w, last) ==
    [kind |-> "text", container |-> container, braces |-> braces, lines |-> value.lines,
     last |-> last,
     text |->
        CASE container = "Object" ->
                (IF braces THEN <<Sp(Ch("{"))>> ELSE <<>>)
                \o <<Id("a"), Sp(Ch(":"))>> \o Spaced(value.text, w)
                \o (IF last THEN <<Id("b")>> ELSE <<Id("b"), Sp(Ch(":")), Num(2)>>)
                \o (IF braces THEN <<Ch("}")>> ELSE <<>>)
          [] container = "Array" ->
                <<Ch("[")>> \o Spaced(value.text, w)
                \o (IF last THEN <<Num(3)>> ELSE <<Num(3), Ch("]")>>)]

SeparatorDocuments ==
    { SeparatorLine(c, braces, v, w, last) :
        c \in {"Object", "Array"}, braces \in BOOLEAN, v \in ElementValues,
        w \in { <<" ">>, <<"\t">>, <<" ", " ">> }, last \in BOOLEAN }

InitSeparator == InitWith(Seeded \cup SeparatorDocuments, {EmptyEnv})

SpecSeparator == InitSeparator /\ [][Next]_vars

MissesSeparator == "container" \in DOMAIN doc

(***************************************************************************)
(* C17.  Separator discipline: in an object or an array, when the value of *)
(* an element ends on a line and the next token starts on that line and is *)
(* neither a comma nor the closing bracket of the container, parsing fails *)
(* with missingComma, also when the value spans several lines and when the *)
(* token is the last one of the input.                                     *)
(***************************************************************************)
SeparatorsRequired ==
    (pc # "start" /\ MissesSeparator) => pc = "done" /\ root = Nil /\ err = missingCommaError

\* the values of one line, but for a token that ends the text of an object
SeparatorsRequiredOnOneLine ==
    (/\ pc # "start" /\ MissesSeparator
     /\ doc.lines = 1
     /\ ~(doc.container = "Object" /\ doc.last /\ ~doc.braces))
    => pc = "done" /\ root = Nil /\ err = missingCommaError

\* every other document of these is accepted, or fails with another error
SeparatorsNotRequiredOtherwise ==
    (/\ pc = "done" /\ MissesSeparator
     /\ doc.lines > 1 \/ (doc.container = "Object" /\ doc.last /\ ~doc.braces))
    => err # missingCommaError

(***************************************************************************)
(* Documents with a multi-line string: a: """ followed by up to MaxChars   *)
(* characters out of  "  c  and the line break, which either hold no       *)
(* closing run of quotes (the text ends inside the string) or end with the *)
(* first one; after a closed string the text ends or goes on with b: 1 on  *)
(* the next line.                                                          *)
(***************************************************************************)
MaxChars == 7

Quote == "\""

\* in chars, the characters after the opening triple quote, a run of three
\* or more quotes that no quote follows ends at j
ClosesAt(chars, j) ==
    /\ j >= 3
    /\ j <= Len(chars)
    /\ chars[j - 2] = Quote /\ chars[j - 1] = Quote /\ chars[j] = Quote
    /\ j = Len(chars) \/ chars[j + 1] # Quote

Closings(chars) == { j \in 1..Len(chars) : ClosesAt(chars, j) }

\* the token "" of the two first quotes, and the characters that follow it
MultiLine(chars) == [Str("") EXCEPT !.raw = <<Quote>> \o chars]

MultiLineDocument(chars, more) ==
    [kind |-> "text", chars |-> chars, more |-> more,
     text |-> <<Id("a"), Sp(Ch(":"))>>
              \o (IF more THEN <<Nl(MultiLine(chars)), Id("b"), Sp(Ch(":")), Num(1)>>
                  ELSE <<MultiLine(chars)>>)]

MultiLineDocuments ==
    { MultiLineDocument(chars, more) :
        chars \in { c \in {<<>>} \cup SeqsUpTo({Quote, "c", "\n"}, MaxChars) :
                      Closings(c) \in {{}, {Len(c)}} },
        more \in BOOLEAN }

MultiLineTexts == { d \in MultiLineDocuments : d.more => Closings(d.chars) # {} }

InitMultiLine == InitWith(Seeded \cup MultiLineTexts, {EmptyEnv})

SpecMultiLine == InitMultiLine /\ [][Next]_vars

IsMultiLine == "chars" \in DOMAIN doc

(***************************************************************************)
(* C18.  Multi-line string extraction: the string closes at the end of the *)
(* first run of three or more double quotes that no double quote follows,  *)
(* and its value is every character read before the last three quotes of   *)
(* that run; when the input ends without such a run the result is          *)
(* unclosedMultiLineString.                                                *)
(***************************************************************************)
MultiLineExtracted ==
    (pc # "start" /\ IsMultiLine)
    => IF Closings(doc.chars) = {}
       THEN pc = "done" /\ root = Nil /\ err = unclosedMultiLineStringError
       ELSE /\ parsed.t = "Object"
            /\ parsed.fields["a"] = String(SubSeq(doc.chars, 1, Len(doc.chars) - 3))
            /\ doc.more => parsed.fields["b"] = IntVal(1)

MultiLineExtractedWitness ==
    /\ pc = "done" /\ IsMultiLine /\ err = NoErr
    /\ doc.chars = <<"c", Quote, "c", Quote, Quote, Quote, Quote>>
    /\ parsed.fields["a"] = String(<<"c", Quote, "c", Quote>>)

(***************************************************************************)
(* Documents with an Int literal and a word after it: a: n, n being 1 or   *)
(* 2, then nothing, a space or a tab, then                                 *)
(*   the word, at the end of the text;                                     *)
(*   a comma and  word: 2 ;                                                *)
(*   a line break and  word: 2 .                                           *)
(* The word is one of the units  s  ms  us  or one of  x  S .              *)
(***************************************************************************)
UnitWords == { "s", "ms", "us", "x", "S" }

WordAfter(n, w, sep, word) ==
    [kind |-> "text", n |-> n, w |-> w, sep |-> sep, word |-> word,
     text |-> <<Id("a"), Sp(Ch(":"))>>
              \o CASE sep = "" -> Spaced(<<Num(n)>>, w) \o <<Id(word)>>
                   [] sep = "," -> Spaced(<<Num(n)>>, w) \o <<Sp(Ch(",")), Id(word), Sp(Ch(":")), Num(2)>>
                   [] sep = "\n" -> Spaced(<<Num(n)>>, w \o <<"\n">>) \o <<Id(word), Sp(Ch(":")), Num(2)>>]

DurationDocuments ==
    { WordAfter(n, w, sep, word) :
        n \in {1, 2}, w \in { <<>>, <<" ">>, <<"\t">> }, sep \in { "", ",", "\n" },
        word \in UnitWords }

InitDuration == InitWith(Seeded \cup DurationDocuments, {EmptyEnv})

SpecDuration == InitDuration /\ [][Next]_vars

HasWordAfter == "word" \in DOMAIN doc

\* what the claim says of the document
IntOrDuration ==
    IF doc.sep = "" /\ durationUnitOf(Text(doc.word)) # 0
    THEN /\ parsed.t = "Object"
         /\ parsed.fields["a"] = Duration(doc.n * durationUnitOf(Text(doc.word)))
    ELSE IF doc.sep = ""
    THEN parsed = Nil \/ parsed.fields["a"] = IntVal(doc.n)
    ELSE /\ parsed.t = "Object"
         /\ parsed.fields["a"] = IntVal(doc.n)
         /\ doc.word \in DOMAIN parsed.fields
         /\ parsed.fields[doc.word] = IntVal(2)

(***************************************************************************)
(* C19.  An Int literal n is emitted as Duration(n x unit) if and only if  *)
(* the next token is one of the unit words and is on the line of the       *)
(* literal; otherwise (the next token on a later line, also when white     *)
(* space follows the literal before the line break, or not a unit word)    *)
(* the value is Int(n) and the next token is parsed as the following key   *)
(* or separator.                                                           *)
(***************************************************************************)
DurationIffUnitOnLine == (pc # "start" /\ HasWordAfter) => IntOrDuration

\* the same but for a unit word on the next line after white space
DurationIffUnitAfterLiteral ==
    (/\ pc # "start" /\ HasWordAfter
     /\ ~(doc.sep = "\n" /\ doc.w # <<>> /\ durationUnitOf(Text(doc.word)) # 0))
    => IntOrDuration

(***************************************************************************)
(* Documents with a Float literal and a unit: a: f, f out of 0.25, 0.5,    *)
(* 1.5 and 2.0, then a unit out of  us  ms  s  second  seconds  right      *)
(* after it or after a space, at the end of the text or before ", b: 2".   *)
(***************************************************************************)
FloatLiterals == { Flt("0.25", 250), Flt("0.5", 500), Flt("1.5", 1500), Flt("2.0", 2000) }

FloatUnits == { "us", "ms", "s", "second", "seconds" }

FloatDocument(f, w, unit, more) ==
    [kind |-> "text", f |-> f, unit |-> unit,
     text |-> <<Id("a"), Sp(Ch(":"))>> \o Spaced(<<f>>, w) \o <<Id(unit)>>
              \o (IF more THEN <<Sp(Ch(",")), Id("b"), Sp(Ch(":")), Num(2)>> ELSE <<>>)]

FloatDocuments ==
    { FloatDocument(f, w, unit, more) :
        f \in FloatLiterals, w \in { <<>>, <<" ">> }, unit \in FloatUnits, more \in BOOLEAN }

InitFloat == InitWith(Seeded \cup FloatDocuments, {EmptyEnv})

SpecFloat == InitFloat /\ [][Next]_vars

HasFloat == "f" \in DOMAIN doc

(***************************************************************************)
(* C20.  A Float literal f followed on its line by a duration unit u       *)
(* yields the Duration of f times u nanoseconds, the fraction of f not     *)
(* being discarded before the multiplication: 0.5 second is 500            *)
(* milliseconds and 1.5 seconds are 1500 milliseconds.                     *)
(***************************************************************************)
FloatTimesUnit ==
    (pc # "start" /\ HasFloat)
    => /\ parsed.t = "Object"
       /\ parsed.fields["a"]
             = Duration(doc.f.num * (durationUnitOf(Text(doc.unit)) \div 1000))

\* what the parser yields: the whole part of f times u
WholePartTimesUnit ==
    (pc # "start" /\ HasFloat)
    => /\ parsed.t = "Object"
       /\ parsed.fields["a"]
             = Duration((doc.f.num \div 1000) * durationUnitOf(Text(doc.unit)))

(***************************************************************************)
(* Documents with one key k out of                                         *)
(*   c    "c"    ""    "."    .    "$"    $    "?"    ?                    *)
(* written as  k: 1 ,  b { k: 1 } ,  a.k: 1  or  a: 1, k: 2 .              *)
(***************************************************************************)
KeyTokens ==
    { Id("c"), Str("c"), Str(""), Str("."), Ch("."), Str("$"), Ch("$"), Str("?"), Ch("?") }

KeyForms == { "first", "nested", "path", "second" }

KeyDocument(k, form) ==
    [kind |-> "text", k |-> k, form |-> form,
     text |->
        CASE form = "first" -> <<k, Sp(Ch(":")), Num(1)>>
          [] form = "nested" -> <<Sp(Id("b")), Sp(Ch("{")), k, Sp(Ch(":")), Sp(Num(1)), Ch("}")>>
          [] form = "path" -> <<Id("a"), Ch("."), k, Sp(Ch(":")), Num(1)>>
          [] form = "second" -> <<Id("a"), Sp(Ch(":")), Num(1), Sp(Ch(",")), k, Sp(Ch(":")), Num(2)>>]

KeyDocuments == { KeyDocument(k, form) : k \in KeyTokens, form \in KeyForms }

InitKey == InitWith(Seeded \cup KeyDocuments, {EmptyEnv})

SpecKey == InitKey /\ [][Next]_vars

HasKeyToken == "k" \in DOMAIN doc

\* no key of an object of the tree is empty or the dot
RECURSIVE ValidKeys(_)
ValidKeys(tree) ==
    CASE tree.t = "Object" ->
            \A k \in DOMAIN tree.fields :
                k # "" /\ k # dotToken /\ ValidKeys(tree.fields[k])
      [] tree.t \in {"Array", "concatenation"} ->
            \A i \in DOMAIN tree.elems : ValidKeys(tree.elems[i])
      [] OTHER -> TRUE

\* a forbidden character and a leading dot are rejected
KeyRejected ==
    /\ doc.k.body \in forbiddenCharacters
          => pc = "done" /\ root = Nil /\ err = invalidKeyError(doc.k.body)
    /\ (doc.k.body = dotToken /\ doc.form # "path")
          => pc = "done" /\ root = Nil /\ err = leadingPeriodError

(***************************************************************************)
(* C21.  Key invariant: in every tree a successful parse returns, every    *)
(* key of every Object is a non-empty string and is not the dot; a key     *)
(* that is a forbidden character or a leading dot is rejected with         *)
(* invalidKey or leadingPeriod.  Quoted keys are no exception.             *)
(***************************************************************************)
KeysAreValid ==
    /\ (pc = "done" /\ err = NoErr) => ValidKeys(TreeOf(heap, root))
    /\ (pc # "start" /\ HasKeyToken) => KeyRejected

\* the same, the quoted empty key apart
KeysAreValidButEmpty ==
    (~HasKeyToken \/ doc.k # Str(""))
    => /\ (pc = "done" /\ err = NoErr) => ValidKeys(TreeOf(heap, root))
       /\ (pc # "start" /\ HasKeyToken) => KeyRejected

(***************************************************************************)
(* Documents that end inside a substitution: a: ${ or a: ${? (or the same  *)
(* as the first element of an array), then the first 0..MaxPathTokens      *)
(* tokens of the path  b.c.d.x.y , then the end of the text, right after   *)
(* the last token or after a space or a line break.                        *)
(***************************************************************************)
MaxPathTokens == 5

PathTokenList ==
    << Id("b"), Ch("."), Id("c"), Ch("."), Id("d"), Ch("."), Id("x"), Ch("."), Id("y"), Ch(".") >>

Unterminated(n, optional, w, inArray) ==
    [kind |-> "text", tokens |-> n, optional |-> optional, w |-> w,
     text |-> (IF inArray THEN <<Ch("[")>> ELSE <<Id("a"), Sp(Ch(":"))>>)
              \o Spaced(<<Ch("$"), Ch("{")>> \o (IF optional THEN <<Ch("?")>> ELSE <<>>)
                        \o SubSeq(PathTokenList, 1, n), w)]

UnterminatedDocuments ==
    { Unterminated(n, optional, w, inArray) :
        n \in 0..MaxPathTokens, optional \in BOOLEAN, w \in { <<>>, <<" ">>, <<"\n">> },
        inArray \in BOOLEAN }

InitUnterminated == InitWith(Seeded \cup UnterminatedDocuments, {EmptyEnv})

SpecUnterminated == InitUnterminated /\ [][Next]_vars

IsUnterminated == "tokens" \in DOMAIN doc

MissingClosing ==
    /\ pc = "done"
    /\ root = Nil
    /\ err = invalidSubstitutionError("missing closing parenthesis")

(***************************************************************************)
(* C22.  Unterminated substitution: when ${ or ${? is followed by any      *)
(* number of path tokens and then the end of the input, the call ends with *)
(* invalidSubstitution 'missing closing parenthesis'; the parser does not  *)
(* loop for ever.                                                          *)
(***************************************************************************)
UnterminatedSubstitutionFails == (pc # "start" /\ IsUnterminated) => MissingClosing

\* the end of the text comes before any path token, or right after the first
EndsEarly == doc.tokens = 0 \/ (doc.tokens = 1 /\ doc.w = <<>>)

UnterminatedAfterOneToken == (pc # "start" /\ IsUnterminated /\ EndsEarly) => MissingClosing

\* in every other case the call does not return
UnterminatedOtherwiseHangs == (pc # "start" /\ IsUnterminated /\ ~EndsEarly) => pc = "hang"

(***************************************************************************)
(* Config.Get on the trees of documents of up to MaxEntries entries out of *)
(*   a { x: 1 }    a { x { y: 2 } }    a: 1    b: 1    b { x: 3 }          *)
(* with the paths  a  a.x  a.x.y  a.q  b.x  n.x .                          *)
(***************************************************************************)
FindEntries ==
    { Field(<<"a">>, "{", VObj(<<Field(<<"x">>, ":", VInt(1))>>)),
      Field(<<"a">>, "{", VObj(<<Field(<<"x">>, "{", VObj(<<Field(<<"y">>, ":", VInt(2))>>))>>)),
      Field(<<"a">>, ":", VInt(1)),
      Field(<<"b">>, ":", VInt(1)),
      Field(<<"b">>, "{", VObj(<<Field(<<"x">>, ":", VInt(3))>>)) }

FindDocuments == { Document(s) : s \in SeqsUpTo(FindEntries, MaxEntries) }

FindPaths ==
    { <<"a">>, <<"a", ".", "x">>, <<"a", ".", "x", ".", "y">>, <<"a", ".", "q">>,
      <<"b", ".", "x">>, <<"n", ".", "x">> }

InitFind == InitWith(Seeded \cup FindDocuments, {EmptyEnv})

Get == \E path \in FindPaths : Got("Get", path, ConfigGet(heap, root, path))

NextFind ==
    \/ Parse
    \/ ResolveObjectEntry
    \/ ResolveSliceElement
    \/ ResolveReturn
    \/ Get

SpecFind == InitFind /\ [][NextFind]_vars

\* the segments of a path
Segments(path) == SelectSeq(path, LAMBDA s : s # dotToken)

\* the nested walk: nil when a segment is missing or a leading segment holds
\* a value that is no Object
RECURSIVE Walk(_, _)
Walk(tree, keys) ==
    IF tree.t # "Object" THEN Nil
    ELSE IF Head(keys) \notin DOMAIN tree.fields THEN Nil
    ELSE IF Len(keys) = 1 THEN tree.fields[Head(keys)]
    ELSE Walk(tree.fields[Head(keys)], Tail(keys))

\* every leading segment of the path that is there holds an Object
RECURSIVE ThroughObjects(_, _)
ThroughObjects(tree, keys) ==
    \/ Len(keys) = 1
    \/ Head(keys) \notin DOMAIN tree.fields
    \/ /\ tree.fields[Head(keys)].t = "Object"
       /\ ThroughObjects(tree.fields[Head(keys)], Tail(keys))

FoundIsWalk ==
    /\ ~step.result.panic
    /\ TreeOf(heap, step.result.v) = Walk(TreeOf(heap, root), Segments(step.path))

(***************************************************************************)
(* C23.  Object.find(path) is the nested walk over the segments of the     *)
(* path: the value under the last segment in the object reached through    *)
(* the leading ones, and nil, without a fault, when a leading segment is    *)
(* missing or holds a value that is not an Object.                         *)
(***************************************************************************)
FindIsNestedWalk ==
    (pc = "got" /\ step.accessor = "Get" /\ root.t = "Object") => FoundIsWalk

\* the same when the leading segments that are there hold Objects
FindIsNestedWalkThroughObjects ==
    (/\ pc = "got" /\ step.accessor = "Get" /\ root.t = "Object"
     /\ ThroughObjects(TreeOf(heap, root), Segments(step.path)))
    => FoundIsWalk

(***************************************************************************)
(* The typed accessors of Config (lines 42-248).  A type assertion without *)
(* the comma-ok form and a call of panic are both a panic.                 *)
(***************************************************************************)
\* the value Get has returned asserted to be of the type t, as value.(T) does
Asserted(got, t) ==
    IF got.panic THEN Panicked
    ELSE IF got.v = Nil THEN NoPanic(Nil)
    ELSE IF got.v.t # t THEN Panicked
    ELSE NoPanic(got.v)

\* Config.GetObject (lines 42-49)
ConfigGetObject(h, c, path) == Asserted(ConfigGet(h, c, path), "Object")

\* Object.ToConfig (lines 350-352)
ToConfig(o) == [t |-> "Config", root |-> o]

\* Config.GetConfig (lines 52-59)
ConfigGetConfig(h, c, path) ==
    LET value == ConfigGetObject(h, c, path)
    IN IF value.panic THEN Panicked
       ELSE IF value.v = Nil THEN NoPanic(Nil)
       ELSE NoPanic(ToConfig(value.v))

\* Config.GetStringMap (lines 63-65)
ConfigGetStringMap(h, c, path) == ConfigGetObject(h, c, path)

\* Config.GetStringMapString (lines 69-83)
ConfigGetStringMapString(h, c, path) ==
    LET value == Asserted(ConfigGet(h, c, path), "Object")
    IN IF value.panic THEN Panicked
       ELSE IF value.v = Nil THEN NoPanic(Nil)
       ELSE LET object == MapOf(h, value.v.ref)
            IN IF \E k \in DOMAIN object : ValueString(h, object[k]).panic THEN Panicked
               ELSE NoPanic([k \in DOMAIN object |-> ValueString(h, object[k]).v])

\* Config.GetArray (lines 86-93)
ConfigGetArray(h, c, path) == Asserted(ConfigGet(h, c, path), "Array")

\* Config.GetIntSlice (lines 96-110): v.(Int) panics on any other element
ConfigGetIntSlice(h, c, path) ==
    LET value == Asserted(ConfigGet(h, c, path), "Array")
    IN IF value.panic THEN Panicked
       ELSE IF value.v = Nil THEN NoPanic(Nil)
       ELSE LET arr == SliceOf(h, value.v.ref)
            IN IF \E i \in DOMAIN arr : arr[i].t # "Int" THEN Panicked
               ELSE NoPanic([i \in DOMAIN arr |-> arr[i].n])

\* the decimal numerals of the numbers the documents hold
Numerals == 0..9

\* strconv.Atoi and strconv.ParseFloat accept the one-word string that is a
\* decimal numeral
IsNumeral(str) == Len(str) = 1 /\ \E n \in Numerals : ToString(n) = str[1]

Atoi(str) == CHOOSE n \in Numerals : ToString(n) = str[1]

\* Config.GetInt (lines 142-161)
ConfigGetInt(h, c, path) ==
    LET value == ConfigGet(h, c, path)
    IN IF value.panic THEN Panicked
       ELSE IF value.v = Nil THEN NoPanic(0)
       ELSE IF value.v.t = "Int" THEN NoPanic(value.v.n)
       ELSE IF value.v.t = "String"
       THEN IF IsNumeral(value.v.str) THEN NoPanic(Atoi(value.v.str)) ELSE Panicked
       ELSE Panicked

\* Config.GetFloat32 (lines 165-186) and Config.GetFloat64 (lines 190-211):
\* the number is the numeral it is written with, narrowed to the size
ConfigGetFloat(h, c, path, bits) ==
    LET value == ConfigGet(h, c, path)
    IN IF value.panic THEN Panicked
       ELSE IF value.v = Nil THEN NoPanic(0)
       ELSE IF value.v.t = "Float64" THEN NoPanic(<<bits, value.v.f>>)
       ELSE IF value.v.t = "String"
       THEN IF IsNumeral(value.v.str) THEN NoPanic(<<bits, value.v.str[1]>>) ELSE Panicked
       ELSE Panicked

ConfigGetFloat32(h, c, path) == ConfigGetFloat(h, c, path, 32)

ConfigGetFloat64(h, c, path) == ConfigGetFloat(h, c, path, 64)

\* Config.GetBoolean (lines 215-236)
ConfigGetBoolean(h, c, path) ==
    LET value == ConfigGet(h, c, path)
    IN IF value.panic THEN Panicked
       ELSE IF value.v = Nil THEN NoPanic(FALSE)
       ELSE IF value.v.t = "Boolean" THEN NoPanic(value.v.b)
       ELSE IF value.v.t = "String"
       THEN IF value.v.str \in {<<"true">>, <<"yes">>, <<"on">>} THEN NoPanic(TRUE)
            ELSE IF value.v.str \in {<<"false">>, <<"no">>, <<"off">>} THEN NoPanic(FALSE)
            ELSE Panicked
       ELSE Panicked

\* Config.GetDuration (lines 240-247)
ConfigGetDuration(h, c, path) ==
    LET value == ConfigGet(h, c, path)
    IN IF value.panic THEN Panicked
       ELSE IF value.v = Nil THEN NoPanic(0)
       ELSE IF value.v.t # "Duration" THEN Panicked
       ELSE NoPanic(value.v.ns)

GetObject == \E path \in AccessPaths : Got("GetObject", path, ConfigGetObject(heap, root, path))

GetConfig == \E path \in AccessPaths : Got("GetConfig", path, ConfigGetConfig(heap, root, path))

GetStringMap ==
    \E path \in AccessPaths : Got("GetStringMap", path, ConfigGetStringMap(heap, root, path))

GetStringMapString ==
    \E path \in AccessPaths :
        Got("GetStringMapString", path, ConfigGetStringMapString(heap, root, path))

GetArray == \E path \in AccessPaths : Got("GetArray", path, ConfigGetArray(heap, root, path))

GetIntSlice ==
    \E path \in AccessPaths : Got("GetIntSlice", path, ConfigGetIntSlice(heap, root, path))

GetInt == \E path \in AccessPaths : Got("GetInt", path, ConfigGetInt(heap, root, path))

GetFloat32 ==
    \E path \in AccessPaths : Got("GetFloat32", path, ConfigGetFloat32(heap, root, path))

GetFloat64 ==
    \E path \in AccessPaths : Got("GetFloat64", path, ConfigGetFloat64(heap, root, path))

GetBoolean ==
    \E path \in AccessPaths : Got("GetBoolean", path, ConfigGetBoolean(heap, root, path))

GetDuration ==
    \E path \in AccessPaths : Got("GetDuration", path, ConfigGetDuration(heap, root, path))

NextAccess ==
    \/ Parse
    \/ ResolveObjectEntry
    \/ ResolveSliceElement
    \/ ResolveReturn
    \/ GetObject
    \/ GetConfig
    \/ GetStringMap
    \/ GetStringMapString
    \/ GetArray
    \/ GetIntSlice
    \/ GetStringSlice
    \/ GetString
    \/ GetInt
    \/ GetFloat32
    \/ GetFloat64
    \/ GetBoolean
    \/ GetDuration

(***************************************************************************)
(* The typed accessors on the trees of documents of up to MaxEntries       *)
(* entries out of                                                          *)
(*   a { x: 1 }    a { x { y: 2 } }    a: 1    a: [1]    c: true           *)
(* and on the array roots [] and [1], at the paths of AccessPaths.         *)
(***************************************************************************)
AccessEntries ==
    { Field(<<"a">>, "{", VObj(<<Field(<<"x">>, ":", VInt(1))>>)),
      Field(<<"a">>, "{", VObj(<<Field(<<"x">>, "{", VObj(<<Field(<<"y">>, ":", VInt(2))>>))>>)),
      Field(<<"a">>, ":", VInt(1)),
      Field(<<"a">>, ":", VArr(<<VInt(1)>>)),
      Field(<<"c">>, ":", VStr("true")) }

AccessDocuments ==
    { Document(s) : s \in SeqsUpTo(AccessEntries, MaxEntries) }
        \cup { ArrayDocument(<<>>), ArrayDocument(<<VInt(1)>>) }

InitAccess == InitWith(Seeded \cup AccessDocuments, {EmptyEnv})

SpecAccess == InitAccess /\ [][NextAccess]_vars

TypedAccessors ==
    { "GetObject", "GetConfig", "GetArray", "GetString", "GetInt", "GetFloat32", "GetFloat64",
      "GetBoolean", "GetDuration", "GetIntSlice", "GetStringSlice", "GetStringMap",
      "GetStringMapString" }

\* the zero value of the result type of the accessor
ZeroValue(accessor) ==
    CASE accessor = "GetString" -> <<>>
      [] accessor \in {"GetInt", "GetFloat32", "GetFloat64", "GetDuration"} -> 0
      [] accessor = "GetBoolean" -> FALSE
      [] OTHER -> Nil

\* a key is missing at some segment of the path: in the root, or in the
\* Object that the segments before it lead to
RECURSIVE KeyMissing(_, _)
KeyMissing(tree, keys) ==
    \/ Head(keys) \notin DOMAIN tree.fields
    \/ /\ Len(keys) > 1
       /\ tree.fields[Head(keys)].t = "Object"
       /\ KeyMissing(tree.fields[Head(keys)], Tail(keys))

\* the Config holds no value at the path
HoldsNoValue(tree, path) == tree.t # "Object" \/ KeyMissing(tree, Segments(path))

(***************************************************************************)
(* C24.  Every typed accessor, called with a path at which the Config      *)
(* holds no value (a key is missing at some segment, or the root is not an *)
(* Object), returns the zero value of its result type and does not panic.  *)
(***************************************************************************)
MissingPathsReturnZero ==
    (/\ pc = "got" /\ step.accessor \in TypedAccessors
     /\ HoldsNoValue(TreeOf(heap, root), step.path))
    => /\ ~step.result.panic
       /\ step.result.v = ZeroValue(step.accessor)

\* a key missing below an Object, and a root that is an Array
MissingPathsReturnZeroWitness ==
    /\ pc = "got" /\ step.accessor = "GetInt"
    /\ step.path = <<"a", ".", "q">>
    /\ root.t = "Object" /\ "a" \in DOMAIN TreeOf(heap, root).fields
    /\ TreeOf(heap, root).fields["a"].t = "Object"
    /\ step.result = NoPanic(0)

(***************************************************************************)
(* Config.WithFallback (src/config.go, lines 263-274) and Object.copy      *)
(* (lines 373-386).                                                        *)
(***************************************************************************)
\* a copy that copies the map of the object alone: the objects below it are
\* the ones of o
copyOfTheMapAlone(h, o) == [h |-> Alloc(h, MapCell(MapOf(h, o))), v |-> Object(NewRef(h))]

RECURSIVE copy(_, _)
RECURSIVE copyKeys(_, _, _, _)

\* the loop of copy over the keys still to visit; result is the new map
copyKeys(h, o, result, keys) ==
    IF keys = <<>> THEN [h |-> h, v |-> Object(result)]
    ELSE LET v == MapOf(h, o)[Head(keys)]
             sub == copy(h, v.ref)
         IN IF v.t = "Object"
            THEN copyKeys(MapSet(sub.h, result, Head(keys), sub.v), o, result, Tail(keys))
            ELSE copyKeys(MapSet(h, result, Head(keys), v), o, result, Tail(keys))

copy(h, o) ==
    copyKeys(Alloc(h, MapCell(EmptyMap)), o, NewRef(h), RangeKeys(DOMAIN MapOf(h, o), FALSE))

\* a WithFallback in which the fallback overrides the current values
WithFallbackOverriding(h, c, fallback, rev) ==
    IF c.t = "Object" /\ fallback.t = "Object"
    THEN LET resultConfig == copy(h, c.ref)
         IN [h |-> mergeObjects(resultConfig.h, resultConfig.v.ref, fallback.ref, rev),
             v |-> ToConfig(resultConfig.v)]
    ELSE [h |-> h, v |-> ToConfig(c)]

\* c.WithFallback(fallback), c and fallback the roots of the two Configs:
\* the memory after the call and the Config returned
WithFallback(h, c, fallback, rev) ==
    IF c.t = "Object" /\ fallback.t = "Object"
    THEN LET resultConfig == copy(h, fallback.ref)
         IN [h |-> mergeObjects(resultConfig.h, resultConfig.v.ref, c.ref, rev),
             v |-> ToConfig(resultConfig.v)]
    ELSE [h |-> h, v |-> ToConfig(c)]

(***************************************************************************)
(* c.WithFallback(f) on two Configs whose roots are objects over the keys  *)
(* a and b with values out of MergeValues, or the array [1]; an object     *)
(* with the same object at both keys can hold one map at both.             *)
(***************************************************************************)
ArrayTree(elems) == [t |-> "Array", elems |-> elems]

FallbackRoots == MergeOperands \cup { ArrayTree(<<IntVal(1)>>) }

\* the memory h with the root stored in new cells, and that root
StoreRoot(h, tree, shared) ==
    IF tree.t = "Array"
    THEN [h |-> Alloc(h, SliceCell(tree.elems)), v |-> Array(NewRef(h))]
    ELSE IF shared THEN Shared(Store(h, tree))
    ELSE Store(h, tree)

StoredCurrent(d) == StoreRoot(<<>>, d.c, d.sharedC)

StoredFallback(d) == StoreRoot(StoredCurrent(d).h, d.f, d.sharedF)

InitFallback ==
    /\ doc \in { [kind |-> "fallback", c |-> c, f |-> f, sharedC |-> sc, sharedF |-> sf] :
                    c \in FallbackRoots, f \in FallbackRoots, sc \in BOOLEAN, sf \in BOOLEAN }
    /\ doc.sharedC => doc.c.t = "Object" /\ Shareable(doc.c)
    /\ doc.sharedF => doc.f.t = "Object" /\ Shareable(doc.f)
    /\ heap = StoredFallback(doc).h
    /\ root = StoredCurrent(doc).v
    /\ step = [kind |-> "fallback", fallback |-> StoredFallback(doc).v]
    /\ pc = "fallback"
    /\ input = <<>>
    /\ env = EmptyEnv
    /\ fs = Files
    /\ stack = <<>>
    /\ err = NoErr
    /\ parsed = Nil
    /\ files = [opened |-> 0, closed |-> 0]

\* the call c.WithFallback(f)
CallWithFallback ==
    /\ pc = "fallback"
    /\ \E rev \in BOOLEAN :
         LET r == WithFallback(heap, root, step.fallback, rev)
         IN /\ heap' = r.h
            /\ step' = [kind |-> "fallback", fallback |-> step.fallback, result |-> r.v]
    /\ pc' = "returned"
    /\ UNCHANGED <<input, env, fs, root, stack, err, parsed, files, doc>>

SpecFallback == InitFallback /\ [][CallWithFallback]_vars

BothObjects == doc.c.t = "Object" /\ doc.f.t = "Object"

(***************************************************************************)
(* C25.  c.WithFallback(f): when both roots are Objects the result is a    *)
(* new Config whose root is the deep merge of f's root with c's root, c    *)
(* winning and Objects under one key of both merged recursively; when one  *)
(* root is no Object the result is c itself; and c.WithFallback of the     *)
(* empty object is structurally equal to c.                                *)
(***************************************************************************)
FallbackIsDeepMerge ==
    pc = "returned"
    => /\ ~IsPanic(heap)
       /\ BothObjects =>
            /\ step.result.root.ref \notin {root.ref, step.fallback.ref}
            /\ TreeOf(heap, step.result.root) = MergedTree(doc.f, doc.c)
       /\ ~BothObjects => step.result.root = root
       /\ (doc.c.t = "Object" /\ doc.f = EmptyObjectTree)
            => TreeOf(heap, step.result.root) = doc.c

\* both roots hold an Object at the key a, with different keys below it
FallbackIsDeepMergeWitness ==
    /\ pc = "returned"
    /\ BothObjects
    /\ "a" \in DOMAIN doc.c.fields /\ "a" \in DOMAIN doc.f.fields
    /\ doc.c.fields["a"] = ObjectTree("x" :> ObjectTree("p" :> IntVal(1)))
    /\ doc.f.fields["a"] = ObjectTree("x" :> ObjectTree("q" :> IntVal(2)) @@ "y" :> IntVal(2))
    /\ TreeOf(heap, step.result.root).fields["a"] =
          ObjectTree("x" :> ObjectTree("p" :> IntVal(1) @@ "q" :> IntVal(2)) @@ "y" :> IntVal(2))

(***************************************************************************)
(* C27.  WithFallback leaves both operands as they were: after the call    *)
(* the trees of c and of f are the ones they were before it, at every      *)
(* depth, objects under one key of both included.                          *)
(***************************************************************************)
FallbackLeavesOperands ==
    pc = "returned"
    => /\ TreeOf(heap, root) = doc.c
       /\ TreeOf(heap, step.fallback) = doc.f

FallbackLeavesOperandsWitness ==
    /\ pc = "returned"
    /\ BothObjects
    /\ "a" \in DOMAIN doc.c.fields /\ "a" \in DOMAIN doc.f.fields
    /\ doc.c.fields["a"] = ObjectTree("x" :> IntVal(1))
    /\ doc.f.fields["a"] = ObjectTree("x" :> ObjectTree("q" :> IntVal(2)) @@ "y" :> IntVal(2))
    /\ TreeOf(heap, step.result.root) # doc.f
    /\ TreeOf(heap, step.fallback) = doc.f

(***************************************************************************)
(* Documents in which a key is given two substitutions that resolve to     *)
(* objects: a { .. }, b { .. }, the values of a and of b out of            *)
(*   { x: 1 }    { x { p: 1 } }    { x { q: 2 }, y: 2 }                    *)
(* followed by up to MaxEntries entries out of c: ${a} and c: ${b}.        *)
(***************************************************************************)
ReferredObjects ==
    { VObj(<<Field(<<"x">>, ":", VInt(1))>>),
      VObj(<<Field(<<"x">>, "{", VObj(<<Field(<<"p">>, ":", VInt(1))>>))>>),
      VObj(<<Field(<<"x">>, "{", VObj(<<Field(<<"q">>, ":", VInt(2))>>)),
             Field(<<"y">>, ":", VInt(2))>>) }

ReferringEntries == { Field(<<"c">>, ":", VSub(<<"a">>)), Field(<<"c">>, ":", VSub(<<"b">>)) }

ReferredDocuments ==
    { Document(<<Field(<<"a">>, "{", a), Field(<<"b">>, "{", b)>> \o s) :
        a \in ReferredObjects, b \in ReferredObjects, s \in SeqsUpTo(ReferringEntries, MaxEntries) }

InitReferred == InitWith(Seeded \cup ReferredDocuments, {EmptyEnv})

SpecReferred == InitReferred /\ [][Next]_vars

\* the values at a and at b are the ones that were parsed
ReferredAsParsed ==
    \A k \in {"a", "b"} : TreeOf(heap, root).fields[k] = parsed.fields[k]

\* a and b hold an Object under one key
ObjectsUnderOneKey ==
    \E k \in DOMAIN parsed.fields["a"].fields \cap DOMAIN parsed.fields["b"].fields :
        parsed.fields["a"].fields[k].t = "Object" /\ parsed.fields["b"].fields[k].t = "Object"

(***************************************************************************)
(* C26.  Resolution does not modify the values that substitutions refer    *)
(* to: when c is a concatenation of substitutions that resolve to the      *)
(* objects a and b, the values at a and at b are after resolution what     *)
(* they were before it, at every depth, also when a and b hold an Object   *)
(* under the same key.                                                     *)
(***************************************************************************)
ReferredValuesKept ==
    (pc = "done" /\ err = NoErr /\ doc \in ReferredDocuments) => ReferredAsParsed

\* the same when a and b hold no Object under one key
ReferredValuesKeptWithoutCommonObjects ==
    (pc = "done" /\ err = NoErr /\ doc \in ReferredDocuments /\ ~ObjectsUnderOneKey)
    => ReferredAsParsed

(***************************************************************************)
(* Documents with substitutions that refer to keys holding substitutions:  *)
(* up to MaxEntries entries with different keys out of                     *)
(*   a: ${b}    b: ${c}    c: 1    a: ${?x}    b: ${a}    a: 1             *)
(* x is set in no environment.  Every value of the root is an Int or a     *)
(* Substitution, so the loop of resolveSubstitutions over the root is the  *)
(* whole resolution.                                                       *)
(***************************************************************************)
ChainEntries ==
    { Field(<<"a">>, ":", VSub(<<"b">>)),
      Field(<<"b">>, ":", VSub(<<"c">>)),
      Field(<<"c">>, ":", VInt(1)),
      Field(<<"a">>, ":", VOptSub(<<"x">>)),
      Field(<<"b">>, ":", VSub(<<"a">>)),
      Field(<<"a">>, ":", VInt(1)) }

ChainDocuments ==
    { Document(s) : s \in { q \in SeqsUpTo(ChainEntries, MaxEntries) :
                              \A i, j \in DOMAIN q : i # j => q[i].path # q[j].path } }

InitChain == InitWith(Seeded \cup ChainDocuments, {EmptyEnv})

SpecChain == InitChain /\ [][Next]_vars

\* the loop of lines 151-156 over the root object, its keys visited in the
\* order given: the error returned and the memory it leaves
RECURSIVE ResolvedInOrder(_, _, _)
ResolvedInOrder(h, rootRef, keys) ==
    IF keys = <<>> THEN [e |-> NoErr, h |-> h]
    ELSE LET p == processSubstitution(h, rootRef, MapOf(h, rootRef)[Head(keys)])
         IN IF p.effect = "error" THEN [e |-> p.e, h |-> h]
            ELSE IF p.effect = "set"
            THEN ResolvedInOrder(MapSet(h, rootRef, Head(keys), p.v), rootRef, Tail(keys))
            ELSE ResolvedInOrder(h, rootRef, Tail(keys))

\* the outcome of the resolution of the parsed tree with the keys of the root
\* visited in the order of KeyUniverse: the error, or the tree
OutcomeInOrder ==
    LET s == Store(<<>>, parsed)
        r == ResolvedInOrder(s.h, s.v.ref, RangeKeys(DOMAIN parsed.fields, FALSE))
    IN IF r.e # NoErr THEN [e |-> r.e, tree |-> Nil]
       ELSE [e |-> NoErr, tree |-> TreeOf(r.h, s.v)]

\* the outcome of the call that has ended
OutcomeReached == [e |-> err, tree |-> IF err # NoErr THEN Nil ELSE TreeOf(heap, root)]

Ended == pc \in {"done", "panic"}

\* a substitution of the document refers to a key that holds a substitution
RefersToSubstitution ==
    \E k \in DOMAIN parsed.fields :
        /\ parsed.fields[k].t = "Substitution"
        /\ parsed.fields[k].path[1] \in DOMAIN parsed.fields
        /\ parsed.fields[parsed.fields[k].path[1]].t = "Substitution"

(***************************************************************************)
(* C28.  Determinism of parse: for a fixed input text and environment the  *)
(* outcome (the error, or the tree) is the same in whatever order the      *)
(* entries of an object are visited during resolution, so it is the        *)
(* outcome of the visit in one fixed order; this includes a substitution   *)
(* that refers to a key holding a substitution (a: ${b}, b: ${c}, c: 1)    *)
(* or an unresolved optional substitution (a: ${?x}, b: ${a}).             *)
(***************************************************************************)
ParseIsDeterministic ==
    (Ended /\ doc \in ChainDocuments /\ parsed # Nil) => OutcomeReached = OutcomeInOrder

\* the same when no substitution refers to a key that holds a substitution
ParseIsDeterministicWithoutChains ==
    (Ended /\ doc \in ChainDocuments /\ parsed # Nil /\ ~RefersToSubstitution)
    => OutcomeReached = OutcomeInOrder

(***************************************************************************)
(* Documents with substitutions that refer to each other, to themselves    *)
(* or to an enclosing object: up to MaxEntries entries out of              *)
(*   a: ${b}    b: ${a}    a: ${a}    a { x: ${a} }    c: ${a}             *)
(* A call of resolveSubstitutions runs until it ends: the next step of the *)
(* resolution is taken whenever there is one.                              *)
(***************************************************************************)
CycleEntries ==
    { Field(<<"a">>, ":", VSub(<<"b">>)),
      Field(<<"b">>, ":", VSub(<<"a">>)),
      Field(<<"a">>, ":", VSub(<<"a">>)),
      Field(<<"a">>, "{", VObj(<<Field(<<"x">>, ":", VSub(<<"a">>))>>)),
      Field(<<"c">>, ":", VSub(<<"a">>)) }

CycleDocuments == { Document(s) : s \in SeqsUpTo(CycleEntries, MaxEntries) }

InitCycle == InitWith(Seeded \cup CycleDocuments, {EmptyEnv})

\* a step of resolveSubstitutions
Resolve == ResolveObjectEntry \/ ResolveSliceElement \/ ResolveReturn

SpecCycle == InitCycle /\ [][Next]_vars /\ WF_vars(Resolve)

\* resolveSubstitutions has returned, with an error or without
Returns == pc = "done"

\* a holds an object and a key is given more than one value: a concatenation
\* that may hold the object a more than once
MergesEnclosingObject ==
    /\ \E i \in DOMAIN doc.entries : doc.entries[i].value.v = "obj"
    /\ \E i, j \in DOMAIN doc.entries : i # j /\ doc.entries[i].path = doc.entries[j].path

(***************************************************************************)
(* C29.  resolveSubstitutions terminates on every finite parsed tree, also *)
(* with substitutions that refer to each other (a: ${b}, b: ${a}), to      *)
(* themselves (a: ${a}) or to an enclosing object (a { x: ${a} }): the     *)
(* call returns.                                                           *)
(***************************************************************************)
ResolutionTerminates == (pc = "resolve" /\ doc \in CycleDocuments) ~> Returns

\* the same for the documents that do not give a key the enclosing object
\* more than once
ResolutionTerminatesWithoutMerge ==
    (pc = "resolve" /\ doc \in CycleDocuments /\ ~MergesEnclosingObject) ~> Returns

(***************************************************************************)
(* ParseResource (lines 76-83) on files: main.conf holds the document, up  *)
(* to MaxEntries lines out of                                              *)
(*   a: 1    b: ${u}    include "a.conf"    include "outer.conf"           *)
(*   include "arr.conf"    include "bad.conf"    include "missing"         *)
(* outer.conf holds  include "a.conf"  and  c: 3 ; bad.conf holds          *)
(* a: 1, a += 2 , which is an error; u is set nowhere.                     *)
(***************************************************************************)
ResourceName == "main.conf"

ResourceEntries ==
    { Field(<<"a">>, ":", VInt(1)),
      Field(<<"b">>, ":", VSub(<<"u">>)),
      Include("a.conf"),
      Include("outer.conf"),
      Include("arr.conf"),
      Include("bad.conf"),
      Include("missing") }

ResourceDocuments == { ByLine(s) : s \in SeqsUpTo(ResourceEntries, MaxEntries) }

ResourceFiles(text) ==
    [name \in DOMAIN Files \cup {ResourceName, "outer.conf", "bad.conf"} |->
        CASE name = ResourceName -> [ok |-> TRUE, src |-> text]
          [] name = "outer.conf" ->
                [ok |-> TRUE,
                 src |-> LinesOf(<<Include("a.conf"), Field(<<"c">>, ":", VInt(3))>>)]
          [] name = "bad.conf" ->
                Readable(<<Field(<<"a">>, ":", VInt(1)), Field(<<"a">>, "+=", VInt(2))>>)
          [] OTHER -> Files[name]]

InitResource ==
    /\ doc \in Seeded \cup ResourceDocuments
    /\ input = DocText(doc)
    /\ env = EmptyEnv
    /\ fs = ResourceFiles(input)
    /\ pc = "start"
    /\ heap = <<>>
    /\ root = Nil
    /\ stack = <<>>
    /\ err = NoErr
    /\ parsed = Nil
    /\ step = NoStep
    /\ files = [opened |-> 0, closed |-> 0]

\* lines 77-82: file is the result of os.Open(path); the file opened is
\* handed to the parser, and parse is called
parseResource(path, file) ==
    IF file.err # ""
    THEN Fail(newParser(<<>>, <<>>), couldNotParseResource(file.err))
    ELSE parseRoot(advance([newFileParser(path, file.src, <<>>) EXCEPT !.opened = 1]))

ParseResource ==
    /\ pc = "start"
    /\ Parsed(parseResource(ResourceName, osOpen(ResourceName)))
    /\ UNCHANGED <<input, env, fs, step, doc>>

NextResource ==
    \/ ParseResource
    \/ ResolveObjectEntry
    \/ ResolveSliceElement
    \/ ResolveReturn

SpecResource == InitResource /\ [][NextResource]_vars

\* the call of ParseResource has returned
ResourceParsed == pc = "done" /\ doc \in ResourceDocuments

\* the include directives of the document
Includes == { i \in DOMAIN doc.entries : doc.entries[i].e = "include" }

(***************************************************************************)
(* C30.  Every file opened during a parse call, the resource opened by     *)
(* ParseResource and every file opened for an include directive at any     *)
(* depth, has been closed when the call returns, with or without an error. *)
(***************************************************************************)
FilesClosed == ResourceParsed => files.closed = files.opened

\* the part of it that holds: every file opened for an include directive has
\* been closed, and the resource has not
IncludedFilesClosed == ResourceParsed => files.closed = files.opened - 1

====
